---- MODULE Spec2Model ----
(***************************************************************************)
(* The logging client of the URL-shortener repository (LoggingMiddleware): *)
(* construction, log and the severity methods, the console echo and the    *)
(* delivery loop sendLogToAPI with its retries and backoff waits.          *)
(*                                                                         *)
(* One shipper serves NumCalls call sites.  Every                         *)
(* call keeps the locals of log/sendLogToAPI (logEntry, attempt,           *)
(* lastError), its position (pc), what it resolved with, and a trace of    *)
(* what it did, in order: console writes, POST requests, the collector's   *)
(* outcomes and the backoff waits it started.                              *)
(***************************************************************************)
EXTENDS Integers, Sequences, FiniteSets, TLC

\* ------------------------------------------------------------------ bounds
NumCalls == 2       \* call sites that use the one shipper
MaxAttempts == 3    \* largest retryAttempts a caller configures
MaxStale == 2       \* handler calls made against one render of the page
MaxStored == 2      \* short URLs the runs keep in the list
MaxEffectRuns == 2  \* runs of the redirect effect in one visit
MaxGets == 3        \* loggers handed out by initializeLogger and getLogger
MaxCodeLength == 1  \* longest shortcode in use, and largest length asked for
MaxBatch == 2       \* forms the user fills in for one submission

\* ------------------------------------------------------- program constants
DefaultRetryAttempts == 3
DefaultRetryDelay == 1000
RequestTimeoutMs == 10000
BackendRetryDelay == 2000
FrontendRetryAttempts == 3
FrontendRetryDelay == 1000
BackendRetryAttempts == 5
MaxUrlForms == 5
DefaultValidityPeriod == 30
RedirectCountdown == 3
GenerateMaxAttempts == 100

Calls == 1..NumCalls

\* ------------------------------------------------------------------- types
Stacks == {"frontend", "backend"}
Levels == {"debug", "info", "warn", "error", "fatal"}
\* the tags and texts the callers of this model pass
Packages == {"api"}
Messages == {"URL shortened"}

LogEntries == [stack : Stacks, level : Levels, package : Packages, message : Messages]

Url == "http://collector"

\* A LogResponse body, an empty body, and the null that log resolves with.
LogResponse == [kind |-> "json", logID |-> "id-1", message |-> "log created successfully"]
EmptyData == [kind |-> "empty"]
Null == [kind |-> "null"]

\* What one POST can end in: an HTTP response, no response at all (network
\* error) or the client's timeout.
Response(status, data) == [kind |-> "response", status |-> status, data |-> data]
NetworkError == [kind |-> "network", status |-> 0, data |-> EmptyData]
Timeout == [kind |-> "timeout", status |-> 0, data |-> EmptyData]

Ok200 == Response(200, LogResponse)
Outcomes ==
    { Ok200,
      Response(200, EmptyData),
      Response(201, LogResponse),
      Response(401, EmptyData),
      Response(403, EmptyData),
      Response(404, EmptyData),
      Response(500, EmptyData),
      NetworkError,
      Timeout }

\* ------------------------------------------------------------------- state
VARIABLES
    config,      \* this.config
    apiClient,   \* this.apiClient: its default headers
    calls,       \* per log call: pc, logEntry, attempt, lastError, result, trace
    held,        \* the object a caller got from getConfig(), if it got one
    urlForms,    \* UrlShortenerPage: the state of useState<UrlFormData[]>
    storedValue, \* App: the state of useLocalStorage('shortUrls', [])
    localStorage,\* window.localStorage: the item under the key 'shortUrls'
    rendered,    \* what the closures of the last render see: urlForms, shortUrls
    handler,     \* RedirectHandler: its state, its timers, and whether its effect is due
    location,    \* window.location: the path the application was opened at, or where it went
    clock,       \* the time of `new Date()`, in minutes
    utils,       \* utils/logger.ts: its module variable `logger`, and what its functions did
    generating,  \* the call of generateShortCode that is running: its parameters and locals
    isProcessing,\* UrlShortenerPage: the state of useState(false)
    promises     \* the run of handleSubmitAll that has not ended: what it awaits

\* the application but for the logger of utils/logger.ts
pageVars == <<urlForms, storedValue, localStorage, rendered, handler, location, clock,
              generating, isProcessing, promises>>
appVars == <<urlForms, storedValue, localStorage, rendered, handler, location, clock, utils,
             generating, isProcessing, promises>>
loggerVars == <<config, apiClient, calls, held>>

vars == <<config, apiClient, calls, held, urlForms, storedValue, localStorage, rendered,
          handler, location, clock, utils, generating, isProcessing, promises>>

\* --------------------------------------------------------------- construction
OptionalFields == {"enableConsoleLog", "retryAttempts", "retryDelay"}

\* The LoggerConfig values a caller passes: the optional fields it names are in
\* "given"; the others are absent from the object.
CallerConfigs ==
    [ apiUrl : {Url},
      accessToken : {"tok0"},
      defaultStack : Stacks,
      given : SUBSET OptionalFields,
      enableConsoleLog : BOOLEAN,
      retryAttempts : 0..MaxAttempts,
      retryDelay : {BackendRetryDelay} ]

\* faulty variant: the defaults are spread after the caller's object and win
MergeDefaultsOverCaller(c) ==
    [ apiUrl |-> c.apiUrl,
      accessToken |-> c.accessToken,
      defaultStack |-> c.defaultStack,
      enableConsoleLog |-> TRUE,
      retryAttempts |-> DefaultRetryAttempts,
      retryDelay |-> DefaultRetryDelay ]

\* this.config = { enableConsoleLog: true, retryAttempts: 3, retryDelay: 1000, ...config }
MergeDefaults(c) ==
    [ apiUrl |-> c.apiUrl,
      accessToken |-> c.accessToken,
      defaultStack |-> c.defaultStack,
      enableConsoleLog |-> IF "enableConsoleLog" \in c.given THEN c.enableConsoleLog ELSE TRUE,
      retryAttempts |-> IF "retryAttempts" \in c.given THEN c.retryAttempts ELSE DefaultRetryAttempts,
      retryDelay |-> IF "retryDelay" \in c.given THEN c.retryDelay ELSE DefaultRetryDelay ]

Bearer(token) == <<"Bearer", token>>

\* axios.create({ baseURL, headers, timeout })
AxiosCreate(cfg) ==
    [ baseURL |-> cfg.apiUrl,
      headers |-> [ ContentType |-> "application/json",
                    Authorization |-> Bearer(cfg.accessToken) ],
      timeout |-> RequestTimeoutMs ]

\* ------------------------------------------------------------------ console
ToUpperCase(s) ==
    CASE s = "frontend" -> "FRONTEND"
      [] s = "backend" -> "BACKEND"
      [] s = "debug" -> "DEBUG"
      [] s = "info" -> "INFO"
      [] s = "warn" -> "WARN"
      [] s = "error" -> "ERROR"
      [] s = "fatal" -> "FATAL"
      [] OTHER -> s

\* faulty variant: the case 'fatal' is missing and falls to the default
ConsoleChannelNoFatal(level) ==
    CASE level = "debug" -> "debug"
      [] level = "info" -> "info"
      [] level = "warn" -> "warn"
      [] level = "error" -> "error"
      [] OTHER -> "log"

\* the switch of logToConsole
ConsoleChannel(level) ==
    CASE level = "debug" -> "debug"
      [] level = "info" -> "info"
      [] level = "warn" -> "warn"
      [] level = "error" -> "error"
      [] level = "fatal" -> "error"
      [] OTHER -> "log"

\* `[${timestamp}] [${STACK}] [${LEVEL}] [${package}] ${message}`; the
\* timestamp is the wall clock's and is left out of the line.
logToConsole(logEntry) ==
    [ ev |-> "console",
      channel |-> ConsoleChannel(logEntry.level),
      what |-> "echo",
      line |-> << ToUpperCase(logEntry.stack), ToUpperCase(logEntry.level),
                  logEntry.package, logEntry.message >> ]

\* console.warn(`Log API attempt ${attempt}/${retryAttempts} failed:`, error)
AttemptFailedWarning(attempt, error) ==
    [ ev |-> "console", channel |-> "warn", what |-> "attempt failed",
      attempt |-> attempt, of |-> config.retryAttempts, error |-> error ]

\* console.error('Authentication failed for logging API. Check your access token.')
AuthFailedError ==
    [ ev |-> "console", channel |-> "error", what |-> "authentication failed" ]

\* console.error('Failed to send log to API after all retries:', message)
AllRetriesFailedError(message) ==
    [ ev |-> "console", channel |-> "error", what |-> "all retries failed",
      message |-> message ]

\* console.error('Original log entry:', logEntry)
OriginalEntryError(logEntry) ==
    [ ev |-> "console", channel |-> "error", what |-> "original log entry",
      logEntry |-> logEntry ]

\* --------------------------------------------------------------- the request
\* faulty variant: the level is sent in upper case, as the echo prints it
PostEventUpperLevel(attempt, logEntry) ==
    [ ev |-> "post", attempt |-> attempt, path |-> "/logs",
      authorization |-> apiClient.headers.Authorization,
      body |-> [logEntry EXCEPT !.level = ToUpperCase(@)] ]

PostEvent(attempt, logEntry) ==
    [ ev |-> "post", attempt |-> attempt, path |-> "/logs",
      authorization |-> apiClient.headers.Authorization, body |-> logEntry ]

OutcomeEvent(attempt, o) == [ev |-> "outcome", attempt |-> attempt, outcome |-> o]

DelayEvent(attempt, ms) == [ev |-> "delay", after |-> attempt, ms |-> ms]

\* the promise of delay(ms) has resolved and the loop goes on
ElapsedEvent(attempt) == [ev |-> "elapsed", after |-> attempt]

\* axios rejects the promise of post unless a response arrived whose status
\* passes the default validateStatus (2xx); the client is created without one.
Throws(o) == o.kind # "response" \/ o.status < 200 \/ o.status >= 300

StatusMessage(status) ==
    CASE status = 401 -> "Request failed with status code 401"
      [] status = 403 -> "Request failed with status code 403"
      [] status = 404 -> "Request failed with status code 404"
      [] status = 500 -> "Request failed with status code 500"
      [] OTHER -> "Request failed"

\* the AxiosError that post throws for outcome o
AxiosErrorOf(o) ==
    [ kind |-> "axios",
      hasResponse |-> (o.kind = "response"),
      status |-> o.status,
      message |-> CASE o.kind = "network" -> "Network Error"
                    [] o.kind = "timeout" -> "timeout of 10000ms exceeded"
                    [] OTHER -> StatusMessage(o.status) ]

NullError == [kind |-> "null"]
Undefined == "undefined"
TypeErrorThrown == "TypeError"

\* response.data is truthy
Truthy(data) == data.kind # "empty"

\* faulty variants: the status is not tested; a field the body does not have is required
IsSuccessAnyStatus(o) == Truthy(o.data)
IsSuccessLogIdField(o) == o.status = 200 /\ Truthy(o.data) /\ "logId" \in DOMAIN o.data

\* response.status === 200 && response.data
IsSuccess(o) == o.status = 200 /\ Truthy(o.data)

\* faulty variant: 403 is retried
IsAuthFailureOnly401(error) ==
    error.kind = "axios" /\ error.hasResponse /\ error.status = 401

\* axios.isAxiosError(error) && (error.response?.status === 401 || ... === 403)
IsAuthFailure(error) ==
    /\ error.kind = "axios"
    /\ error.hasResponse
    /\ error.status = 401 \/ error.status = 403

\* faulty variants: one attempt too many, one too few
LoopConditionOneMore(attempt) == attempt <= config.retryAttempts + 1
LoopConditionStrict(attempt) == attempt < config.retryAttempts

\* faulty variant: a do-while loop, whose body runs once before the test
LoopConditionDoWhile(attempt) == attempt = 1 \/ attempt <= config.retryAttempts

\* attempt <= this.config.retryAttempts
LoopCondition(attempt) == attempt <= config.retryAttempts

\* faulty variant: a wait follows the last attempt too
ShouldWaitAlways(attempt) == TRUE

\* attempt < this.config.retryAttempts
ShouldWait(attempt) == attempt < config.retryAttempts

\* faulty variant: the delay does not grow with the attempt
BackoffDelayConstant(attempt) == config.retryDelay

\* this.config.retryDelay * attempt
BackoffDelay(attempt) == config.retryDelay * attempt

\* faulty variant: lastError.message, which throws when lastError is null
LastErrorMessageUnchained(error) ==
    IF error = NullError THEN TypeErrorThrown ELSE error.message

\* lastError?.message
LastErrorMessage(error) == IF error = NullError THEN Undefined ELSE error.message

\* ----------------------------------------------------------- the delivery loop
IdleCall ==
    [ pc |-> "idle", logEntry |-> [kind |-> "none"], attempt |-> 0,
      lastError |-> NullError, result |-> Null, trace |-> <<>> ]

\* faulty variant: the diagnostic is written whatever enableConsoleLog says
EpilogueAlwaysWrites(cs) ==
    [cs EXCEPT !.pc = "resolved", !.result = Null,
               !.trace = @ \o << AllRetriesFailedError(LastErrorMessage(cs.lastError)),
                                 OriginalEntryError(cs.logEntry) >>]

\* the lines after the loop: the failure diagnostic and `return null`
Epilogue(cs) ==
    LET message == LastErrorMessage(cs.lastError) IN
    IF ~config.enableConsoleLog
    THEN [cs EXCEPT !.pc = "resolved", !.result = Null]
    ELSE IF message = TypeErrorThrown
    THEN [cs EXCEPT !.pc = "rejected"]
    ELSE [cs EXCEPT !.pc = "resolved", !.result = Null,
                    !.trace = @ \o << AllRetriesFailedError(message),
                                      OriginalEntryError(cs.logEntry) >>]

\* the head of the for loop, entered with the loop variable at `attempt`
LoopHead(cs, attempt) ==
    IF LoopCondition(attempt)
    THEN [cs EXCEPT !.pc = "posting", !.attempt = attempt,
                    !.trace = Append(@, PostEvent(attempt, cs.logEntry))]
    ELSE Epilogue([cs EXCEPT !.attempt = attempt])

\* faulty variant: this.delay(...) is called but not awaited
CatchDelayNotAwaited(cs, error) ==
    LET caught == [cs EXCEPT !.lastError = error,
                     !.trace = IF config.enableConsoleLog
                               THEN Append(@, AttemptFailedWarning(cs.attempt, error))
                               ELSE @]
    IN IF IsAuthFailure(error)
       THEN Epilogue([caught EXCEPT !.trace = IF config.enableConsoleLog
                                               THEN Append(@, AuthFailedError)
                                               ELSE @])
       ELSE IF ShouldWait(cs.attempt)
       THEN LoopHead([caught EXCEPT
                        !.trace = Append(@, DelayEvent(cs.attempt, BackoffDelay(cs.attempt)))],
                     cs.attempt + 1)
       ELSE LoopHead(caught, cs.attempt + 1)

\* the catch block
Catch(cs, error) ==
    LET caught == [cs EXCEPT !.lastError = error,
                     !.trace = IF config.enableConsoleLog
                               THEN Append(@, AttemptFailedWarning(cs.attempt, error))
                               ELSE @]
    IN IF IsAuthFailure(error)
       THEN Epilogue([caught EXCEPT !.trace = IF config.enableConsoleLog
                                               THEN Append(@, AuthFailedError)
                                               ELSE @])
       ELSE IF ShouldWait(cs.attempt)
       THEN [caught EXCEPT !.pc = "waiting",
                           !.trace = Append(@, DelayEvent(cs.attempt, BackoffDelay(cs.attempt)))]
       ELSE LoopHead(caught, cs.attempt + 1)

\* the try block once the awaited post has settled with outcome o
AfterPost(cs, o) ==
    IF Throws(o)
    THEN Catch(cs, AxiosErrorOf(o))
    ELSE IF IsSuccess(o)
    THEN [cs EXCEPT !.pc = "resolved", !.result = o.data]
    ELSE LoopHead(cs, cs.attempt + 1)

\* ------------------------------------------------------------ the configuration
Tokens == {"tok0", "tok1"}

\* createFrontendLogger(apiUrl, accessToken): the LoggerConfig it passes on
FrontendLoggerConfig(apiUrl, accessToken) ==
    [ apiUrl |-> apiUrl,
      accessToken |-> accessToken,
      defaultStack |-> "frontend",
      given |-> OptionalFields,
      enableConsoleLog |-> TRUE,
      retryAttempts |-> FrontendRetryAttempts,
      retryDelay |-> FrontendRetryDelay ]

\* faulty variant: the retry fields are left to the constructor's defaults
BackendLoggerConfigNoRetry(apiUrl, accessToken) ==
    [ apiUrl |-> apiUrl,
      accessToken |-> accessToken,
      defaultStack |-> "backend",
      given |-> {"enableConsoleLog"},
      enableConsoleLog |-> FALSE,
      retryAttempts |-> BackendRetryAttempts,
      retryDelay |-> BackendRetryDelay ]

\* createBackendLogger(apiUrl, accessToken): the LoggerConfig it passes on
BackendLoggerConfig(apiUrl, accessToken) ==
    [ apiUrl |-> apiUrl,
      accessToken |-> accessToken,
      defaultStack |-> "backend",
      given |-> OptionalFields,
      enableConsoleLog |-> FALSE,
      retryAttempts |-> BackendRetryAttempts,
      retryDelay |-> BackendRetryDelay ]

\* No caller holds a value of getConfig().  "ref" says which object the held
\* value is: a copy of its own, or this.config itself.
NothingHeld == [ref |-> "none", value |-> [kind |-> "none"]]

\* faulty variant: `return this.config`
GetConfigResultAlias == [ref |-> "config", value |-> [kind |-> "none"]]

\* getConfig(): `return { ...this.config }`, a new object with the same fields
GetConfigResult == [ref |-> "copy", value |-> config]

ConfigFields == {"accessToken", "defaultStack", "enableConsoleLog", "retryAttempts", "retryDelay"}

\* a value a caller writes into field f of the object: one the field does not hold
Overwritten(f, old) ==
    CASE f = "accessToken" -> "forged"
      [] f = "defaultStack" -> IF old = "frontend" THEN "backend" ELSE "frontend"
      [] f = "enableConsoleLog" -> ~old
      [] f = "retryAttempts" -> IF old = 0 THEN 1 ELSE 0
      [] f = "retryDelay" -> IF old = 1 THEN 2 ELSE 1

\* ------------------------------------------------------------ the application
\* uuidv4(): an id that nothing the page holds or shows carries
NewId(used) == CHOOSE n \in 1..(Cardinality(used) + 1) : n \notin used

\* the form useState starts with, addUrlForm appends and resetAllForms leaves
BlankForm(id) ==
    [ id |-> id, originalUrl |-> "", validityPeriod |-> DefaultValidityPeriod,
      customShortcode |-> "", isProcessing |-> FALSE, result |-> <<>>, error |-> <<>> ]

FormIds(forms) == { forms[i].id : i \in 1..Len(forms) }

\* RedirectHandler is not rendered: the path is not that of a short URL
NotMounted ==
    [ mounted |-> FALSE, due |-> FALSE, runs |-> 0, isRedirecting |-> TRUE, error |-> "",
      foundUrl |-> <<>>, countdown |-> RedirectCountdown, timers |-> <<>> ]

\* The application is opened at "/" with nothing stored: one blank form, an
\* empty list, and the first render has happened.
\* let logger: Logger | null = null
NullLogger == [kind |-> "null"]

\* utils/logger.ts when the module has been loaded: no logger yet; no call of
\* createFrontendLogger has been made and no logger has been handed out
ModuleLoaded == [logger |-> NullLogger, constructions |-> 0, returned |-> <<>>]

\* no call of generateShortCode is running
NotGenerating == [pc |-> "idle"]

InitApp ==
    /\ urlForms = <<BlankForm(1)>>
    /\ storedValue = <<>>
    /\ localStorage = <<>>
    /\ rendered = [urlForms |-> <<BlankForm(1)>>, shortUrls |-> <<>>, stale |-> 0]
    /\ handler = NotMounted
    /\ location = "/"
    /\ clock = 0
    /\ utils = ModuleLoaded
    /\ generating = NotGenerating
    /\ isProcessing = FALSE
    /\ promises = <<>>

\* ------------------------------------------------------------------- actions
Init ==
    /\ \E c \in CallerConfigs :
          /\ config = MergeDefaults(c)
          /\ apiClient = AxiosCreate(MergeDefaults(c))
    /\ calls = [c \in Calls |-> IdleCall]
    /\ held = NothingHeld
    /\ InitApp

\* faulty variant: the echo is written after the first request has been issued
LogEchoAfterSend(c, stack, level, packageName, message) ==
    LET logEntry == [stack |-> stack, level |-> level,
                     package |-> packageName, message |-> message]
        sent == LoopHead([IdleCall EXCEPT !.logEntry = logEntry], 1)
    IN /\ calls[c].pc = "idle"
       /\ calls' = [calls EXCEPT ![c] =
                      [sent EXCEPT !.trace = IF config.enableConsoleLog
                                             THEN Append(@, logToConsole(logEntry))
                                             ELSE @]]
       /\ UNCHANGED <<config, apiClient, held, appVars>>

\* log(stack, level, packageName, message), up to its first await
LogCall(stack, level, packageName, message) ==
    LET logEntry == [stack |-> stack, level |-> level,
                     package |-> packageName, message |-> message]
        started == [IdleCall EXCEPT !.logEntry = logEntry,
                       !.trace = IF config.enableConsoleLog
                                 THEN <<logToConsole(logEntry)>>
                                 ELSE <<>>]
    IN LoopHead(started, 1)

\* a call site calls log(stack, level, packageName, message)
Log(c, stack, level, packageName, message) ==
    /\ calls[c].pc = "idle"
    /\ calls' = [calls EXCEPT ![c] = LogCall(stack, level, packageName, message)]
    /\ UNCHANGED <<config, apiClient, held, appVars>>

\* faulty variant: the stack of the frontend is written into the method
SeverityFrontendStack(c, level, packageName, message) ==
    Log(c, "frontend", level, packageName, message)

\* debug / info / warn / error / fatal (packageName, message)
Severity(c, level, packageName, message) ==
    Log(c, config.defaultStack, level, packageName, message)

\* faulty variant: a 401 or 403 is remembered on the shipper, and every call
\* in flight gives up with it
RespondAbortShared(c, o) ==
    /\ calls[c].pc = "posting"
    /\ LET cs == calls[c]
           settled == [cs EXCEPT !.trace = Append(@, OutcomeEvent(cs.attempt, o))]
       IN calls' = [d \in Calls |->
                      IF d = c THEN AfterPost(settled, o)
                      ELSE IF Throws(o) /\ IsAuthFailure(AxiosErrorOf(o))
                              /\ calls[d].pc \in {"posting", "waiting"}
                      THEN Epilogue(calls[d])
                      ELSE calls[d]]
    /\ UNCHANGED <<config, apiClient, held, appVars>>

\* the collector (or the network, or the client's timer) settles the post of call c
Respond(c, o) ==
    /\ calls[c].pc = "posting"
    /\ LET cs == calls[c]
           settled == [cs EXCEPT !.trace = Append(@, OutcomeEvent(cs.attempt, o))]
       IN calls' = [calls EXCEPT ![c] = AfterPost(settled, o)]
    /\ UNCHANGED <<config, apiClient, held, appVars>>

\* faulty variant: the promise of delay is never resolved
DelayNeverResolves(c) ==
    /\ calls[c].pc = "waiting"
    /\ UNCHANGED vars

\* the timer of delay(ms) fires
DelayElapsed(c) ==
    /\ calls[c].pc = "waiting"
    /\ LET cs == calls[c]
           resumed == [cs EXCEPT !.trace = Append(@, ElapsedEvent(cs.attempt))]
       IN calls' = [calls EXCEPT ![c] = LoopHead(resumed, cs.attempt + 1)]
    /\ UNCHANGED <<config, apiClient, held, appVars>>

\* faulty variant: a record that was not delivered is kept and sent again
\* after its call has resolved
SettleResendsFailed(c) ==
    /\ calls[c].pc \in {"resolved", "rejected"}
    /\ calls' = [calls EXCEPT ![c] =
                   IF calls[c].result = Null /\ config.retryAttempts >= 1
                   THEN [calls[c] EXCEPT !.pc = "posting", !.attempt = 1,
                            !.trace = Append(@, PostEvent(1, calls[c].logEntry))]
                   ELSE IdleCall]
    /\ UNCHANGED <<config, apiClient, held, appVars>>

\* The caller takes the settled promise of call c; nothing of the call is
\* kept, and the call site can log again.
Settle(c) ==
    /\ calls[c].pc \in {"resolved", "rejected"}
    /\ calls' = [calls EXCEPT ![c] = IdleCall]
    /\ UNCHANGED <<config, apiClient, held, appVars>>

\* faulty variant: the stored token is replaced, the client's header is not
UpdateAccessTokenConfigOnly(newToken) ==
    /\ config' = [config EXCEPT !.accessToken = newToken]
    /\ UNCHANGED <<apiClient, calls, held, appVars>>

\* faulty variant: the header is set to the token alone
UpdateAccessTokenRawHeader(newToken) ==
    /\ config' = [config EXCEPT !.accessToken = newToken]
    /\ apiClient' = [apiClient EXCEPT !.headers.Authorization = <<newToken>>]
    /\ UNCHANGED <<calls, held, appVars>>

\* updateAccessToken(newToken)
UpdateAccessToken(newToken) ==
    /\ config' = [config EXCEPT !.accessToken = newToken]
    /\ apiClient' = [apiClient EXCEPT !.headers.Authorization = Bearer(newToken)]
    /\ UNCHANGED <<calls, held, appVars>>

\* a caller calls getConfig() and keeps what it returns
GetConfig ==
    /\ held' = GetConfigResult
    /\ UNCHANGED <<config, apiClient, calls, appVars>>

\* the caller assigns to field f of the object it holds
MutateReturned(f) ==
    /\ held.ref # "none"
    /\ IF held.ref = "config"
       THEN /\ config' = [config EXCEPT ![f] = Overwritten(f, @)]
            /\ held' = held
       ELSE /\ held' = [held EXCEPT !.value[f] = Overwritten(f, @)]
            /\ config' = config
    /\ UNCHANGED <<apiClient, calls, appVars>>

\* No log call is in flight or waiting to be taken.  Spec starts a call only
\* then: it explores the calls of a shipper one at a time, each with every
\* record, configuration and sequence of outcomes.
Quiet == \A c \in Calls : calls[c].pc = "idle"

\* One call at a time: a settled call leaves nothing behind and the call sites
\* are interchangeable, so the calls of this specification are made from the
\* first call site.  SpecShared runs the call sites concurrently.
FirstCall == CHOOSE c \in Calls : \A d \in Calls : c <= d

Next ==
    \/ \E s \in Stacks, l \in Levels, p \in Packages, m \in Messages :
          Quiet /\ Log(FirstCall, s, l, p, m)
    \/ \E l \in Levels, p \in Packages, m \in Messages :
          Quiet /\ Severity(FirstCall, l, p, m)
    \/ \E c \in Calls, o \in Outcomes : Respond(c, o)
    \/ \E c \in Calls : DelayElapsed(c)
    \/ \E c \in Calls : Settle(c)

Spec == Init /\ [][Next]_vars

\* ---------------------------------------------- one shipper, concurrent calls
\* The shipper of createFrontendLogger, as the application builds it.
InitFrontend ==
    /\ config = MergeDefaults(FrontendLoggerConfig(Url, "tok0"))
    /\ apiClient = AxiosCreate(MergeDefaults(FrontendLoggerConfig(Url, "tok0")))
    /\ calls = [c \in Calls |-> IdleCall]
    /\ held = NothingHeld
    /\ InitApp

SharedLevels == {"info"}

\* a success, an abort and a failure that is retried
SharedOutcomes == { Ok200, Response(401, EmptyData), Response(500, EmptyData) }

\* Call sites log whenever they like: a call starts while others are in
\* flight, and the token is replaced at any moment.
NextShared ==
    \/ \E c \in Calls, l \in SharedLevels, p \in Packages, m \in Messages :
          Severity(c, l, p, m)
    \/ \E c \in Calls, o \in SharedOutcomes : Respond(c, o)
    \/ \E c \in Calls : DelayElapsed(c)
    \/ \E c \in Calls : Settle(c)
    \/ \E t \in Tokens : UpdateAccessToken(t)

SpecShared == InitFrontend /\ [][NextShared]_vars

\* ------------------------------------------------- one call at a time, briefly
\* SharedOutcomes, and the two failures that are retried on other paths: a 2xx
\* that does not throw, and the timeout of the request.
LoopOutcomes == SharedOutcomes \cup { Response(200, EmptyData), Timeout }

NextCalls ==
    \/ \E c \in Calls, l \in SharedLevels, p \in Packages, m \in Messages :
          Quiet /\ Severity(c, l, p, m)
    \/ \E c \in Calls, o \in LoopOutcomes : Respond(c, o)
    \/ \E c \in Calls : DelayElapsed(c)
    \/ \E c \in Calls : Settle(c)

\* A caller reads the configuration, writes into what it got, and the token is
\* replaced, between and during the calls.
NextConfig ==
    \/ NextCalls
    \/ GetConfig
    \/ \E f \in ConfigFields : MutateReturned(f)
    \/ \E t \in Tokens : UpdateAccessToken(t)

SpecConfig == InitFrontend /\ [][NextConfig]_vars

\* Every request ends: axios settles the promise of post with a response, an
\* error, or its own timeout of RequestTimeoutMs.  Every timer of delay fires.
Fairness ==
    \A c \in Calls :
        /\ WF_vars(\E o \in LoopOutcomes : Respond(c, o))
        /\ WF_vars(DelayElapsed(c))

LiveSpec == Init /\ [][NextCalls]_vars /\ Fairness

\* ------------------------------------------------------- the shortener page
\* The handlers are closures of the last render: they read rendered.urlForms
\* and rendered.shortUrls.  An updater passed to setUrlForms is applied to the
\* state itself.  The logging calls of the handlers are fire-and-forget calls
\* of the shipper (Severity above); they touch nothing of the page.
SetUrlForms(forms) ==
    /\ rendered.stale < MaxStale
    /\ urlForms' = forms
    /\ rendered' = [rendered EXCEPT !.stale = @ + 1]
    /\ UNCHANGED <<storedValue, localStorage, handler, location, clock, utils, generating,
                 isProcessing, promises, loggerVars>>


\* addUrlForm()
AddUrlForm ==
    IF Len(rendered.urlForms) < MaxUrlForms
    THEN SetUrlForms(Append(urlForms,
                            BlankForm(NewId(FormIds(urlForms) \cup FormIds(rendered.urlForms)))))
    ELSE SetUrlForms(urlForms)

\* removeUrlForm(id)
RemoveUrlForm(id) ==
    IF Len(rendered.urlForms) > 1
    THEN SetUrlForms(SelectSeq(urlForms, LAMBDA form : form.id # id))
    ELSE SetUrlForms(urlForms)

\* prev.map(form => form.id === id ? { ...form, ...updates } : form)
MapForms(forms, id, updates) ==
    [ i \in 1..Len(forms) |->
        IF forms[i].id = id
        THEN [ f \in DOMAIN forms[i] |-> IF f \in DOMAIN updates THEN updates[f] ELSE forms[i][f] ]
        ELSE forms[i] ]

\* updateUrlForm(id, updates)
UpdateUrlForm(id, updates) == SetUrlForms(MapForms(urlForms, id, updates))

\* resetForm(id)
ResetForm(id) ==
    UpdateUrlForm(id, [ originalUrl |-> "", validityPeriod |-> DefaultValidityPeriod,
                        customShortcode |-> "", isProcessing |-> FALSE,
                        result |-> <<>>, error |-> <<>> ])

\* resetAllForms()
ResetAllForms ==
    SetUrlForms(<<BlankForm(NewId(FormIds(urlForms) \cup FormIds(rendered.urlForms)))>>)

\* React renders App and the page again: the closures see the state.  The
\* effect of RedirectHandler, when it is mounted, is due again, for App hands
\* it a new onUrlClick with every render.
Render ==
    /\ rendered.stale > 0
    /\ rendered' = [urlForms |-> urlForms, shortUrls |-> storedValue, stale |-> 0]
    /\ handler' = IF handler.mounted THEN [handler EXCEPT !.due = TRUE] ELSE handler
    /\ UNCHANGED <<urlForms, storedValue, localStorage, location, clock, utils, generating,
                 isProcessing, promises, loggerVars>>

\* processUrlForm resolves with the ShortUrl, or throws when validateForm
\* found errors
Created(errors, shortUrl) == IF errors = <<>> THEN <<shortUrl>> ELSE <<>>

\* ------------------------------------------------------------ the submission
\* What the user types into the URL field and into the shortcode field.  The
\* shortcode is one that validateForm accepts; validateShortcode, which the
\* form shows beside the field, calls it reserved.
TypedUrls == {"example.com"}
TypedCodes == {"Admin"}

\* String.prototype.trim, toLowerCase and length, on the strings above
Trim(str) == IF str = " abc" THEN "abc" ELSE str
ToLowerCase2(str) == IF str = "Admin" THEN "admin" ELSE str
Length(str) ==
    CASE str = "" -> 0
      [] str = "ab" -> 2
      [] str = "abc" -> 3
      [] str = " abc" -> 4
      [] str = "Admin" -> 5
      [] OTHER -> 6

\* normalizeUrl(url)
NormalizeUrl(url) ==
    IF Trim(url) = "" THEN ""
    ELSE IF url = "example.com" THEN "https://example.com"
    ELSE IF url = "a b" THEN "https://a b"
    ELSE Trim(url)

\* validateUrl(url): new URL(url) parses and its protocol is http: or https:
ValidateUrl(url) == url = "https://example.com"

\* /^[a-zA-Z0-9-_]+$/.test(shortcode)
MatchesCodePattern(shortcode) == shortcode \in {"abc", "Admin", "ab", "Xy12ab", "Qw34cd", "Xy12abc"}

ReservedWords == {"api", "admin", "www", "app", "shortener", "statistics", "stats", "analytics"}

UsedCodes(shortUrls) == { shortUrls[i].shortCode : i \in 1..Len(shortUrls) }

When(cond, message) == IF cond THEN <<message>> ELSE <<>>


\* validateForm(form), with the shortUrls of the render
ValidateForm(form, shortUrls) ==
    LET shortcode == Trim(form.customShortcode) IN
       ( IF Trim(form.originalUrl) = "" THEN <<"URL is required">>
         ELSE When(~ValidateUrl(form.originalUrl), "Please enter a valid URL") )
    \o ( IF form.validityPeriod < 1 THEN <<"Validity period must be at least 1 minute">>
         ELSE When(form.validityPeriod > 525600, "Validity period cannot exceed 1 year") )
    \o ( IF shortcode = "" THEN <<>>
         ELSE When(~MatchesCodePattern(shortcode), "Custom shortcode can only contain ...")
              \o When(Length(shortcode) < 3 \/ Length(shortcode) > 20,
                      "Custom shortcode must be between 3 and 20 characters")
              \o When(shortcode \in UsedCodes(shortUrls),
                      "This custom shortcode is already in use") )

\* generateShortCode(usedCodes): a random code of six characters, drawn again
\* while it is among usedCodes; when every draw was, a code one character
\* longer.  Two codes of six characters stand for all of them.
SixCharCodes == {"Xy12ab", "Qw34cd"}
GeneratedCodes(usedCodes) ==
    IF SixCharCodes \subseteq usedCodes THEN {"Xy12abc"} \ usedCodes
    ELSE SixCharCodes \ usedCodes

\* the ShortUrl processUrlForm builds; Date objects are [date |-> minutes]
MakeShortUrl(form, id, shortCode) ==
    [ id |-> id, originalUrl |-> Trim(form.originalUrl), shortCode |-> shortCode,
      createdAt |-> [date |-> clock],
      expiresAt |-> [date |-> clock + form.validityPeriod],
      clickCount |-> 0, clicks |-> <<>> ]

\* JSON.stringify writes a Date as its ISO string; JSON.parse leaves the string
DateToJson(d) == IF "date" \in DOMAIN d THEN [iso |-> d.date] ELSE d
Stringify(shortUrls) ==
    [ i \in 1..Len(shortUrls) |->
        [ shortUrls[i] EXCEPT !.createdAt = DateToJson(@), !.expiresAt = DateToJson(@),
                              !.clicks = [k \in 1..Len(@) |-> [timestamp |-> DateToJson(@[k].timestamp)]] ] ]
Parse(item) == item

\* new Date(x).getTime(), of a Date or of an ISO string
GetTime(d) == IF "date" \in DOMAIN d THEN d.date ELSE d.iso

UrlIds(shortUrls) == { shortUrls[i].id : i \in 1..Len(shortUrls) }
ResultIds(forms) == UNION { UrlIds(forms[i].result) : i \in 1..Len(forms) }

\* faulty variant: the updater is applied to the value the earlier calls stored
ValueToStoreFromLatest(newShortUrl, storedAtRender, storedLatest) ==
    <<newShortUrl>> \o storedLatest

\* setValue(prev => [newShortUrl, ...prev]): `value(storedValue)`, with the
\* storedValue of the render the closure belongs to
ValueToStore(newShortUrl, storedAtRender, storedLatest) ==
    <<newShortUrl>> \o storedAtRender

\* the calls of onShortUrlCreated of one batch, in order: what the last leaves
RECURSIVE StoreAll(_, _, _)
StoreAll(created, storedAtRender, storedLatest) ==
    IF created = <<>> THEN storedLatest
    ELSE StoreAll(Tail(created), storedAtRender,
                  ValueToStore(Head(created), storedAtRender, storedLatest))

RECURSIVE FreshIds(_, _)
FreshIds(used, n) ==
    IF n = 0 THEN <<>>
    ELSE <<NewId(used)>> \o FreshIds(used \cup {NewId(used)}, n - 1)

\* handleSubmitAll().  processUrlForm has no await of its own and the
\* continuations are microtasks, so the batch is over before any other
\* handler runs.  Every form of the batch is validated against, and every new
\* ShortUrl is added through, the shortUrls of the one render whose closure
\* this is.
HandleSubmitAll ==
    LET validForms == SelectSeq(rendered.urlForms,
                                LAMBDA form : /\ Trim(form.originalUrl) # ""
                                              /\ ~form.isProcessing
                                              /\ form.result = <<>>)
        n == Len(validForms)
        ids == FreshIds(UrlIds(storedValue) \cup UrlIds(rendered.shortUrls)
                          \cup ResultIds(urlForms) \cup ResultIds(rendered.urlForms), n)
    IN \E gen \in [1..n -> GeneratedCodes(UsedCodes(rendered.shortUrls))] :
         LET processed ==
                 [ i \in 1..n |->
                     LET form == validForms[i]
                         errors == ValidateForm(form, rendered.shortUrls)
                         shortCode == IF Trim(form.customShortcode) # ""
                                      THEN Trim(form.customShortcode) ELSE gen[i]
                     IN [ formId |-> form.id, errors |-> errors,
                          created |-> Created(errors, MakeShortUrl(form, ids[i], shortCode)) ] ]
             created == [ i \in 1..n |-> processed[i].created ]
             RECURSIVE Flatten(_)
             Flatten(ss) == IF ss = <<>> THEN <<>> ELSE Head(ss) \o Flatten(Tail(ss))
             outcomeOf(id) == CHOOSE r \in { processed[i] : i \in 1..n } : r.formId = id
             settled == [ j \in 1..Len(urlForms) |->
                            IF urlForms[j].id \in { processed[i].formId : i \in 1..n }
                            THEN [ urlForms[j] EXCEPT
                                     !.isProcessing = FALSE,
                                     !.result = IF outcomeOf(urlForms[j].id).errors = <<>>
                                                THEN outcomeOf(urlForms[j].id).created ELSE @,
                                     !.error = outcomeOf(urlForms[j].id).errors ]
                            ELSE urlForms[j] ]
             stored == StoreAll(Flatten(created), rendered.shortUrls, storedValue)
         IN /\ rendered.stale < MaxStale
            /\ Len(rendered.shortUrls) < MaxStored
            /\ urlForms' = settled
            /\ storedValue' = stored
            /\ localStorage' = IF Flatten(created) = <<>> THEN localStorage ELSE Stringify(stored)
            /\ rendered' = [rendered EXCEPT !.stale = @ + 1]
            /\ UNCHANGED <<handler, location, clock, utils, generating,
                 isProcessing, promises, loggerVars>>

\* UrlForm.handleUrlChange(id, url)
HandleUrlChange(id, url) == UpdateUrlForm(id, [originalUrl |-> NormalizeUrl(url)])

\* UrlForm.handleShortcodeChange(id, shortcode)
HandleShortcodeChange(id, shortcode) == UpdateUrlForm(id, [customShortcode |-> shortcode])

\* the form with this id, as the last render shows it
Shown(id) == CHOOSE form \in { rendered.urlForms[i] : i \in 1..Len(rendered.urlForms) } : form.id = id

\* The user's events are discrete: React has rendered before the next one is
\* handled.  The user fills in up to MaxBatch forms, each field once, submits
\* them, and resets a form that shows a result or an error.
Fresh == rendered.stale = 0

NextSubmit ==
    \/ Fresh /\ Len(urlForms) < MaxBatch /\ AddUrlForm
    \/ \E id \in FormIds(rendered.urlForms), url \in TypedUrls :
          Fresh /\ Shown(id).originalUrl = "" /\ HandleUrlChange(id, url)
    \/ \E id \in FormIds(rendered.urlForms), shortcode \in TypedCodes :
          /\ Fresh /\ Shown(id).customShortcode = "" /\ Shown(id).result = <<>>
          /\ HandleShortcodeChange(id, shortcode)
    \/ Fresh /\ HandleSubmitAll
    \/ \E id \in FormIds(rendered.urlForms) :
          /\ Fresh /\ (Shown(id).result # <<>> \/ Shown(id).error # <<>>)
          /\ ResetForm(id)
    \/ Render

SpecSubmit == InitFrontend /\ [][NextSubmit]_vars

\* ------------------------------------------------------- the redirect handler
\* What an earlier session left in localStorage: a short URL that is valid up
\* to minute 1, and one that expired at minute -1.
PersistedItem ==
    << [ id |-> 1, originalUrl |-> "https://example.com", shortCode |-> "Xy12ab",
         createdAt |-> [iso |-> 0 - 29], expiresAt |-> [iso |-> 1],
         clickCount |-> 0, clicks |-> <<>> ],
       [ id |-> 2, originalUrl |-> "https://example.com", shortCode |-> "Qw34cd",
         createdAt |-> [iso |-> 0 - 31], expiresAt |-> [iso |-> 0 - 1],
         clickCount |-> 0, clicks |-> <<>> ] >>

\* what the item can hold when the visit starts: nothing was ever stored,
\* or a later session removed nothing but stored only the first URL
PersistedLists == {<<>>, SubSeq(PersistedItem, 1, 1), PersistedItem}

\* the paths a visitor opens, and the minutes at which
VisitedPaths == {"/Xy12ab", "/Qw34cd", "/nope"}
VisitTimes == {0, 1, 2}

\* location.pathname.substring(1)
ShortCodeOf(path) ==
    CASE path = "/Xy12ab" -> "Xy12ab"
      [] path = "/Qw34cd" -> "Qw34cd"
      [] path = "/nope" -> "nope"
      [] OTHER -> ""

\* App: the path is neither "/" nor one of the pages
IsShortUrlPath(path) == path \in VisitedPaths

\* The application is opened at the path of a short URL: useLocalStorage
\* reads the item, App renders RedirectHandler, whose effect is due.
InitVisit ==
    /\ config = MergeDefaults(FrontendLoggerConfig(Url, "tok0"))
    /\ apiClient = AxiosCreate(MergeDefaults(FrontendLoggerConfig(Url, "tok0")))
    /\ calls = [c \in Calls |-> IdleCall]
    /\ held = NothingHeld
    /\ urlForms = <<>>
    /\ localStorage \in PersistedLists
    /\ storedValue = Parse(localStorage)
    /\ rendered = [urlForms |-> <<>>, shortUrls |-> storedValue, stale |-> 0]
    /\ location \in VisitedPaths
    /\ handler = [NotMounted EXCEPT !.mounted = TRUE, !.due = TRUE]
    /\ clock \in VisitTimes
    /\ utils = ModuleLoaded
    /\ generating = NotGenerating
    /\ isProcessing = FALSE
    /\ promises = <<>>

\* faulty variant: the comparison is the other way round
IsUrlExpiredReversed(expiresAt) == GetTime(expiresAt) > clock

\* isUrlExpired(expiresAt): new Date() > new Date(expiresAt)
IsUrlExpired(expiresAt) == clock > GetTime(expiresAt)

\* shortUrls.find(u => u.shortCode === shortCode), as a sequence of 0 or 1
Find(shortUrls, shortCode) ==
    LET found == SelectSeq(shortUrls, LAMBDA u : u.shortCode = shortCode)
    IN IF found = <<>> THEN <<>> ELSE <<Head(found)>>

\* faulty variant: the short URLs are matched by their original URL
MapUrlsByOriginalUrl(shortUrls, updatedUrl) ==
    [ i \in 1..Len(shortUrls) |->
        IF shortUrls[i].originalUrl = updatedUrl.originalUrl THEN updatedUrl ELSE shortUrls[i] ]

\* updateShortUrl: prev.map(url => url.id === updatedUrl.id ? updatedUrl : url)
MapUrls(shortUrls, updatedUrl) ==
    [ i \in 1..Len(shortUrls) |->
        IF shortUrls[i].id = updatedUrl.id THEN updatedUrl ELSE shortUrls[i] ]

\* The effect of RedirectHandler: handleRedirect(), which has no await and so
\* runs to its end.  It returns a promise, not the function that clears the
\* timer, so the effect has no cleanup and the timer stays.  onUrlClick goes
\* through setValue, which maps the storedValue of the render.
RunEffect ==
    LET shortCode == ShortCodeOf(location)
        found == Find(rendered.shortUrls, shortCode)
        ran == [handler EXCEPT !.due = FALSE, !.runs = @ + 1]
    IN /\ handler.mounted
       /\ handler.due
       /\ handler.runs < MaxEffectRuns
       /\ IF found = <<>>
          THEN /\ handler' = [ran EXCEPT !.error = "Short URL not found",
                                         !.isRedirecting = FALSE]
               /\ UNCHANGED <<storedValue, localStorage, rendered>>
          ELSE IF IsUrlExpired(found[1].expiresAt)
          THEN /\ handler' = [ran EXCEPT !.foundUrl = found,
                                         !.error = "This short URL has expired",
                                         !.isRedirecting = FALSE]
               /\ UNCHANGED <<storedValue, localStorage, rendered>>
          ELSE LET url == found[1]
                   clickData == [timestamp |-> [date |-> clock]]
                   updatedUrl == [url EXCEPT !.clickCount = @ + 1,
                                             !.clicks = Append(@, clickData)]
                   valueToStore == MapUrls(rendered.shortUrls, updatedUrl)
               IN /\ handler' = [ran EXCEPT
                                   !.foundUrl = found,
                                   !.timers = Append(@, [timeLeft |-> RedirectCountdown,
                                                         target |-> url.originalUrl])]
                  /\ storedValue' = valueToStore
                  /\ localStorage' = Stringify(valueToStore)
                  /\ rendered' = [rendered EXCEPT !.stale = 1]
       /\ UNCHANGED <<urlForms, location, clock, utils, generating,
                 isProcessing, promises, loggerVars>>

\* one tick of the setInterval of a run of the effect; at 0 the timer is
\* cleared and the browser leaves for the original URL, and the page is gone
TimerTick(i) ==
    /\ handler.mounted
    /\ i \in 1..Len(handler.timers)
    /\ LET timeLeft == handler.timers[i].timeLeft - 1 IN
       IF timeLeft <= 0
       THEN /\ location' = handler.timers[i].target
            /\ handler' = [handler EXCEPT !.mounted = FALSE, !.due = FALSE,
                                          !.countdown = timeLeft, !.timers = <<>>]
       ELSE /\ location' = location
            /\ handler' = [handler EXCEPT !.countdown = timeLeft,
                                          !.timers[i].timeLeft = timeLeft]
    /\ UNCHANGED <<urlForms, storedValue, localStorage, rendered, clock, utils, generating,
                 isProcessing, promises, loggerVars>>

NextVisit ==
    \/ RunEffect
    \/ Render
    \/ \E i \in 1..MaxEffectRuns : TimerTick(i)

SpecVisit == InitVisit /\ [][NextVisit]_vars

\* ----------------------------------------------- from the page to the short URL
\* the minutes that have passed when the user opens a short URL
Elapse == {0, DefaultValidityPeriod, DefaultValidityPeriod + 1}

\* The user opens a short URL in the tab of the page: the application is
\* loaded again, useLocalStorage reads the item, App renders RedirectHandler.
Open(path, minutes) ==
    /\ ~handler.mounted
    /\ location = "/"
    /\ urlForms' = <<>>
    /\ storedValue' = Parse(localStorage)
    /\ rendered' = [urlForms |-> <<>>, shortUrls |-> Parse(localStorage), stale |-> 0]
    /\ handler' = [NotMounted EXCEPT !.mounted = TRUE, !.due = TRUE]
    /\ location' = path
    /\ clock' = clock + minutes
    /\ UNCHANGED <<localStorage, utils, generating,
                 isProcessing, promises, loggerVars>>

\* the page is what App renders
OnPage == location = "/" /\ ~handler.mounted

\* the user shortens one URL after the other, with generated shortcodes
NextCreate ==
    \/ \E id \in FormIds(rendered.urlForms), url \in TypedUrls :
          Fresh /\ Shown(id).originalUrl = "" /\ HandleUrlChange(id, url)
    \/ Fresh /\ HandleSubmitAll
    \/ \E id \in FormIds(rendered.urlForms) :
          /\ Fresh /\ (Shown(id).result # <<>> \/ Shown(id).error # <<>>)
          /\ ResetForm(id)

NextLifecycle ==
    \/ OnPage /\ NextCreate
    \/ \E path \in VisitedPaths, minutes \in Elapse : Fresh /\ Open(path, minutes)
    \/ RunEffect
    \/ Render
    \/ \E i \in 1..MaxEffectRuns : TimerTick(i)

SpecLifecycle == InitFrontend /\ [][NextLifecycle]_vars

\* The user adds, removes and resets forms.
NextForms ==
    \/ AddUrlForm
    \/ \E id \in FormIds(rendered.urlForms) : RemoveUrlForm(id)
    \/ \E id \in FormIds(rendered.urlForms) : ResetForm(id)
    \/ ResetAllForms
    \/ Render

SpecForms == InitFrontend /\ [][NextForms]_vars

\* ------------------------------------------------- the shippers of the factory
FactoryConfigs == { FrontendLoggerConfig(Url, "tok0"), BackendLoggerConfig(Url, "tok0") }

\* createLogger(config) == new LoggingMiddleware(config), with the config of
\* createFrontendLogger or of createBackendLogger
InitFactory ==
    /\ \E c \in FactoryConfigs :
          /\ config = MergeDefaults(c)
          /\ apiClient = AxiosCreate(MergeDefaults(c))
    /\ calls = [c \in Calls |-> IdleCall]
    /\ held = NothingHeld
    /\ InitApp

SpecFactory == InitFactory /\ [][NextCalls]_vars

\* ------------------------------------------- any number given as retryAttempts
\* retryAttempts is a number the caller passes and the constructor does not
\* check: it can be 0 or negative.
AnyAttemptsConfigs ==
    { [FrontendLoggerConfig(Url, "tok0") EXCEPT !.retryAttempts = n, !.enableConsoleLog = e] :
        n \in (0 - 1)..MaxAttempts, e \in BOOLEAN }

InitAnyAttempts ==
    /\ \E c \in AnyAttemptsConfigs :
          /\ config = MergeDefaults(c)
          /\ apiClient = AxiosCreate(MergeDefaults(c))
    /\ calls = [c \in Calls |-> IdleCall]
    /\ held = NothingHeld
    /\ InitApp

SpecAnyAttempts == InitAnyAttempts /\ [][NextCalls]_vars

\* ------------------------------------------------ the logger of the application
\* utils/logger.ts.  LOGGING_CONFIG is a constant of the module, so the one
\* LoggingMiddleware the module can build has the config and the client of
\* InitFrontend; utils.logger tells whether it has been built.
MiddlewareLogger(n) == [kind |-> "middleware", id |-> n]

\* const fallbackLogger: Logger = { log, info, warn, error, debug }
FallbackLogger == [kind |-> "fallback"]

\* faulty variant: the fallback does not count as a logger, construction is
\* attempted again
InitializeLoggerRetriesFallback(u, throws) ==
    LET installed ==
            IF u.logger \notin {NullLogger, FallbackLogger} THEN u
            ELSE [u EXCEPT !.constructions = @ + 1,
                           !.logger = IF throws THEN FallbackLogger
                                      ELSE MiddlewareLogger(u.constructions + 1)]
    IN [installed EXCEPT !.returned = Append(@, installed.logger)]

\* initializeLogger(): the module after the call, the logger it returned being
\* the last of `returned`; `throws` says whether createFrontendLogger throws
InitializeLoggerResult(u, throws) ==
    LET installed ==
            IF u.logger # NullLogger THEN u
            ELSE [u EXCEPT !.constructions = @ + 1,
                           !.logger = IF throws THEN FallbackLogger
                                      ELSE MiddlewareLogger(u.constructions + 1)]
    IN [installed EXCEPT !.returned = Append(@, installed.logger)]

\* getLogger()
GetLoggerResult(u, throws) ==
    IF u.logger = NullLogger
    THEN InitializeLoggerResult(u, throws)
    ELSE [u EXCEPT !.returned = Append(@, u.logger)]

InitializeLogger ==
    /\ Len(utils.returned) < MaxGets
    /\ \E throws \in BOOLEAN : utils' = InitializeLoggerResult(utils, throws)
    /\ UNCHANGED <<pageVars, loggerVars>>

GetLogger ==
    /\ Len(utils.returned) < MaxGets
    /\ \E throws \in BOOLEAN : utils' = GetLoggerResult(utils, throws)
    /\ UNCHANGED <<pageVars, loggerVars>>

\* the convenience functions
Wrappers ==
    { "logPageLoad", "logUserAction", "logApiCall", "logError", "logFormValidation",
      "logUrlShortening", "logUrlClick", "logStateChange", "logPerformance",
      "logAuthAction", "logStorageOperation", "logConfigLoad" }

\* the method of the logger a wrapper calls
WrapperLevel(w) ==
    CASE w = "logError" -> "error"
      [] w = "logFormValidation" -> "warn"
      [] w \in {"logStateChange", "logStorageOperation"} -> "debug"
      [] OTHER -> "info"

\* the category tag a wrapper passes
WrapperTag(w) ==
    CASE w = "logPageLoad" -> "page"
      [] w \in {"logApiCall", "logUrlShortening"} -> "api"
      [] w = "logStateChange" -> "state"
      [] w = "logAuthAction" -> "auth"
      [] w = "logStorageOperation" -> "utils"
      [] w = "logConfigLoad" -> "config"
      [] OTHER -> "component"

\* the text a wrapper builds from its arguments, for the arguments of one call
WrapperText(w) ==
    CASE w = "logPageLoad" -> "App page loaded"
      [] w = "logUserAction" -> "User action: submit"
      [] w = "logApiCall" -> "API POST /logs initiated"
      [] w = "logError" -> "Error in App initialization: failed"
      [] w = "logFormValidation" -> "URL form validation passed"
      [] w = "logUrlShortening" -> "URL shortened successfully: https://example.com -> Xy12ab"
      [] w = "logUrlClick" -> "Short URL clicked: Xy12ab -> https://example.com"
      [] w = "logStateChange" -> "State change in App: {}"
      [] w = "logPerformance" -> "Performance metric: load = 5ms"
      [] w = "logAuthAction" -> "Authentication action successful: login"
      [] w = "logStorageOperation" -> "Storage read successful for key: shortUrls"
      [] OTHER -> "Configuration loaded successfully: app"

\* the wrappers that pass the tag first and the text second
TagFirst ==
    {"logStateChange", "logPerformance", "logAuthAction", "logStorageOperation"}

\* the first two arguments of the call a wrapper makes on the logger
WrapperArguments(w) ==
    IF w \in TagFirst THEN <<WrapperTag(w), WrapperText(w)>>
                      ELSE <<WrapperText(w), WrapperTag(w)>>

\* what a promise of void resolves with
Void == [kind |-> "undefined"]

\* fallbackLogger.info(message, packageName, data) and its siblings: one
\* console write, and the promise resolves
FallbackCall(level, message, packageName) ==
    [ IdleCall EXCEPT
        !.pc = "resolved",
        !.result = Void,
        !.trace = << [ ev |-> "console", channel |-> level, what |-> "fallback",
                       line |-> <<ToUpperCase(level), packageName, message>> ] >> ]

\* A wrapper: getLogger(), then the severity method of what it returned, whose
\* first parameter is packageName on the LoggingMiddleware and message on the
\* fallback logger.  The promise is not awaited.
Wrapper(c, w) ==
    LET args == WrapperArguments(w) IN
    /\ calls[c].pc = "idle"
    /\ Len(utils.returned) < MaxGets
    /\ \E throws \in BOOLEAN :
          LET got == GetLoggerResult(utils, throws) IN
          /\ utils' = got
          /\ calls' = [calls EXCEPT ![c] =
                IF got.logger = FallbackLogger
                THEN FallbackCall(WrapperLevel(w), args[1], args[2])
                ELSE LogCall(config.defaultStack, WrapperLevel(w), args[1], args[2])]
    /\ UNCHANGED <<config, apiClient, held, pageVars>>

NextUtils ==
    \/ InitializeLogger
    \/ GetLogger
    \/ \E c \in Calls, w \in Wrappers : Quiet /\ Wrapper(c, w)
    \/ \E c \in Calls, o \in SharedOutcomes : Respond(c, o)
    \/ \E c \in Calls : DelayElapsed(c)
    \/ \E c \in Calls : Settle(c)

SpecUtils == InitFrontend /\ [][NextUtils]_vars

\* ------------------------------------------------- writes that may not persist
\* setValue(value) of useLocalStorage, for the value the updater gave:
\* setStoredValue(valueToStore), then setItem(key, JSON.stringify(valueToStore)),
\* which throws when the storage is full or refuses; the catch block logs.
SetValue(valueToStore, throws) ==
    /\ rendered.stale < MaxStale
    /\ storedValue' = valueToStore
    /\ localStorage' = IF throws THEN localStorage ELSE Stringify(valueToStore)
    /\ rendered' = [rendered EXCEPT !.stale = @ + 1]
    /\ UNCHANGED <<urlForms, handler, location, clock, utils, generating,
                 isProcessing, promises, loggerVars>>

\* App.addShortUrl(newShortUrl): setShortUrls(prev => [newShortUrl, ...prev])
AddShortUrl(newShortUrl, throws) ==
    /\ Len(rendered.shortUrls) < MaxStored
    /\ SetValue(ValueToStore(newShortUrl, rendered.shortUrls, storedValue), throws)

\* App.updateShortUrl(updatedUrl)
UpdateShortUrl(updatedUrl, throws) ==
    SetValue(MapUrls(rendered.shortUrls, updatedUrl), throws)

\* the short URL of rendered.shortUrls with one more click, as handleRedirect
\* builds it
Clicked(url) ==
    [url EXCEPT !.clickCount = @ + 1,
                !.clicks = Append(@, [timestamp |-> [date |-> clock]])]

\* The page adds short URLs and the redirect handler records clicks, and a
\* write to the storage fails or does not.
NextStorage ==
    \/ \E shortCode \in GeneratedCodes(UsedCodes(rendered.shortUrls)), throws \in BOOLEAN :
          /\ Fresh
          /\ AddShortUrl(MakeShortUrl([BlankForm(1) EXCEPT !.originalUrl = "https://example.com"],
                                      NewId(UrlIds(storedValue) \cup UrlIds(rendered.shortUrls)),
                                      shortCode),
                         throws)
    \/ \E i \in 1..MaxStored, throws \in BOOLEAN :
          /\ Fresh
          /\ i <= Len(rendered.shortUrls)
          /\ rendered.shortUrls[i].clickCount < MaxEffectRuns
          /\ UpdateShortUrl(Clicked(rendered.shortUrls[i]), throws)
    \/ Render

SpecStorage == InitFrontend /\ [][NextStorage]_vars

\* ------------------------------------------------------------ generateShortCode
\* Two characters stand for the 62 of `characters`; a code is the sequence of
\* its characters.
Characters == {"A", "b"}
CodesOfLength(length) == [1..length -> Characters]

\* the arrays a caller passes as usedCodes
UsedCodeSets == SUBSET (UNION { CodesOfLength(n) : n \in 0..MaxCodeLength })

\* the activation of generateShortCode(usedCodes, length) at the top of its
\* do-while loop; `asked` is the length of the outermost call
Entered(usedCodes, length, asked) ==
    [ pc |-> "loop", usedCodes |-> usedCodes, length |-> length, asked |-> asked,
      attempts |-> 0, result |-> <<>> ]

\* faulty variant: after the last draw the code is returned as it is
AfterDrawReturnsLast(g, code) ==
    LET drawn == [g EXCEPT !.result = code, !.attempts = @ + 1] IN
    IF code \in g.usedCodes /\ drawn.attempts < GenerateMaxAttempts
    THEN drawn
    ELSE [drawn EXCEPT !.pc = "returned"]

\* one turn of the loop with `code` drawn, the test of the loop, and what
\* follows the loop when it is left: the call with length + 1, or the return
AfterDraw(g, code) ==
    LET drawn == [g EXCEPT !.result = code, !.attempts = @ + 1] IN
    IF code \in g.usedCodes /\ drawn.attempts < GenerateMaxAttempts
    THEN drawn
    ELSE IF drawn.attempts >= GenerateMaxAttempts
    THEN Entered(g.usedCodes, g.length + 1, g.asked)
    ELSE [drawn EXCEPT !.pc = "returned"]

\* generateShortCode(usedCodes, length) is called
GenerateShortCode(usedCodes, length) ==
    /\ generating.pc = "idle"
    /\ generating' = Entered(usedCodes, length, length)
    /\ UNCHANGED <<urlForms, storedValue, localStorage, rendered, handler, location, clock,
                   utils, isProcessing, promises, loggerVars>>

\* Math.random picks the characters of one more code
Draw ==
    /\ generating.pc = "loop"
    /\ \E code \in CodesOfLength(generating.length) :
          generating' = AfterDraw(generating, code)
    /\ UNCHANGED <<urlForms, storedValue, localStorage, rendered, handler, location, clock,
                   utils, isProcessing, promises, loggerVars>>

\* the caller has the code
Returned ==
    /\ generating.pc = "returned"
    /\ generating' = NotGenerating
    /\ UNCHANGED <<urlForms, storedValue, localStorage, rendered, handler, location, clock,
                   utils, isProcessing, promises, loggerVars>>

NextGenerate ==
    \/ \E usedCodes \in UsedCodeSets, length \in 0..MaxCodeLength :
          GenerateShortCode(usedCodes, length)
    \/ Draw
    \/ Returned

SpecGenerate == InitFrontend /\ [][NextGenerate]_vars

\* ------------------------------------------------------- what a call has done
Trace(c) == calls[c].trace
IsPost(e) == e.ev = "post"
IsOutcome(e) == e.ev = "outcome"
IsDelay(e) == e.ev = "delay"
IsConsole(e) == e.ev = "console"
Posts(c) == SelectSeq(Trace(c), IsPost)
Settled(c) == SelectSeq(Trace(c), IsOutcome)
Delays(c) == SelectSeq(Trace(c), IsDelay)
Writes(c) == SelectSeq(Trace(c), IsConsole)

Resolved(c) == calls[c].pc = "resolved"

\* the outcomes as the specification classifies them
GoodResponse(o) == o.kind = "response" /\ o.status = 200 /\ o.data.kind = "json"
AuthRefusal(o) == o.kind = "response" /\ o.status \in {401, 403}
NoResponse(o) == o.kind \in {"network", "timeout"}
Malformed(o) == o.kind = "response" /\ o.status \in 200..299 /\ ~GoodResponse(o)
Retryable(o) == ~GoodResponse(o) /\ ~AuthRefusal(o)

\* -------------------------------------------------------------------- claims

\* C1: whatever the record and whatever the collector's outcomes, a log call
\* never rejects; when it has resolved, its value is null or the body of a
\* response the call received.
C1_LogNeverRejects ==
    \A c \in Calls :
        /\ calls[c].pc # "rejected"
        /\ Resolved(c) =>
              \/ calls[c].result = Null
              \/ \E i \in 1..Len(Settled(c)) :
                    /\ calls[c].result = Settled(c)[i].outcome.data
                    /\ calls[c].result.kind = "json"

\* a call with console echo on ended after attempts none of which threw
C1_Witness ==
    \E c \in Calls :
        /\ Resolved(c)
        /\ config.enableConsoleLog
        /\ Len(Settled(c)) >= 1
        /\ calls[c].lastError = NullError
        /\ calls[c].result = Null

\* C2: in every state a call has issued at most retryAttempts POSTs, and the
\* i-th of them is attempt number i.
C2_AttemptsNumbered ==
    \A c \in Calls :
        /\ Len(Posts(c)) <= config.retryAttempts
        /\ \A i \in 1..Len(Posts(c)) : Posts(c)[i].attempt = i

\* a call used every attempt it was configured with
C2_Witness ==
    \E c \in Calls :
        /\ config.retryAttempts >= 2
        /\ Len(Posts(c)) = config.retryAttempts
        /\ Resolved(c)

\* C3: 500 on attempts 1..k and then a 200 with a body: k+1 requests, k waits
\* of 1*base, 2*base, ..., k*base, and the call resolves with that body.
C3_RetriesThenSuccess ==
    \A c \in Calls :
        LET O == Settled(c)
            n == Len(O)
        IN  ( /\ n >= 1
              /\ \A i \in 1..(n - 1) : O[i].outcome = Response(500, EmptyData)
              /\ GoodResponse(O[n].outcome) )
            => /\ Resolved(c)
               /\ Len(Posts(c)) = n
               /\ Len(Delays(c)) = n - 1
               /\ \A i \in 1..(n - 1) : Delays(c)[i].ms = i * config.retryDelay
               /\ calls[c].result = O[n].outcome.data

\* two 500s, then the 200 of attempt 3
C3_Witness ==
    \E c \in Calls :
        /\ Len(Settled(c)) = 3
        /\ Settled(c)[1].outcome = Response(500, EmptyData)
        /\ Settled(c)[2].outcome = Response(500, EmptyData)
        /\ GoodResponse(Settled(c)[3].outcome)
        /\ Len(Delays(c)) = 2
        /\ calls[c].result = LogResponse

\* C4: (retryAttempts >= 1) when every response is a 200 with a body, a call
\* that has resolved issued exactly one request, waited never, and resolved
\* with the body of that response.
C4_FirstAttemptSucceeds ==
    \A c \in Calls :
        ( /\ Resolved(c)
          /\ config.retryAttempts >= 1
          /\ \A i \in 1..Len(Settled(c)) : GoodResponse(Settled(c)[i].outcome) )
        => /\ Len(Posts(c)) = 1
           /\ Len(Settled(c)) = 1
           /\ Len(Delays(c)) = 0
           /\ calls[c].result = Settled(c)[1].outcome.data
           /\ calls[c].result # Null

\* a call resolved on its first attempt although more attempts were allowed
C4_Witness ==
    \E c \in Calls :
        /\ Resolved(c)
        /\ config.retryAttempts >= 2
        /\ Len(Posts(c)) = 1
        /\ GoodResponse(Settled(c)[1].outcome)
        /\ calls[c].result = LogResponse

\* C5: a 401 or 403 on attempt n ends the loop at once: the call has resolved
\* with null, attempt n was its last request, and neither a request nor a
\* backoff wait follows that outcome.
C5_AuthFailureAborts ==
    \A c \in Calls :
        \A i \in 1..Len(Trace(c)) :
            (IsOutcome(Trace(c)[i]) /\ AuthRefusal(Trace(c)[i].outcome))
            => /\ Resolved(c)
               /\ calls[c].result = Null
               /\ Len(Posts(c)) = Trace(c)[i].attempt
               /\ \A j \in (i + 1)..Len(Trace(c)) :
                     ~IsPost(Trace(c)[j]) /\ ~IsDelay(Trace(c)[j])

\* a 403 on attempt 2, after a retried 500, with a third attempt left unused
C5_Witness ==
    \E c \in Calls :
        /\ config.retryAttempts = 3
        /\ Len(Settled(c)) = 2
        /\ Settled(c)[1].outcome = Response(500, EmptyData)
        /\ Settled(c)[2].outcome = Response(403, EmptyData)
        /\ Len(Posts(c)) = 2
        /\ Len(Delays(c)) = 1
        /\ Resolved(c)

\* C6: when every attempt ends in a timeout or a network error and
\* retryAttempts = N >= 1, the resolved call made exactly N requests and N-1
\* waits of base*1, ..., base*(N-1), and resolved with null.
C6_AllAttemptsTimeOut ==
    \A c \in Calls :
        ( /\ Resolved(c)
          /\ config.retryAttempts >= 1
          /\ \A i \in 1..Len(Settled(c)) : NoResponse(Settled(c)[i].outcome) )
        => /\ Len(Posts(c)) = config.retryAttempts
           /\ Len(Settled(c)) = config.retryAttempts
           /\ Len(Delays(c)) = config.retryAttempts - 1
           /\ \A i \in 1..Len(Delays(c)) : Delays(c)[i].ms = config.retryDelay * i
           /\ calls[c].result = Null

\* three timeouts with retryAttempts = 3
C6_Witness ==
    \E c \in Calls :
        /\ Resolved(c)
        /\ config.retryAttempts = 3
        /\ Len(Settled(c)) = 3
        /\ \A i \in 1..3 : Settled(c)[i].outcome = Timeout
        /\ Len(Delays(c)) = 2

\* C7: a resolved call has a non-null value exactly when one of its attempts
\* received a 200 with a non-empty body; that outcome is the last thing the
\* call did, and its body is the value.
C7_SuccessIffGoodResponse ==
    \A c \in Calls :
        /\ Resolved(c) =>
              ( calls[c].result # Null
                <=> \E i \in 1..Len(Settled(c)) : GoodResponse(Settled(c)[i].outcome) )
        /\ \A i \in 1..Len(Trace(c)) :
              (IsOutcome(Trace(c)[i]) /\ GoodResponse(Trace(c)[i].outcome))
              => /\ i = Len(Trace(c))
                 /\ Resolved(c)
                 /\ calls[c].result = Trace(c)[i].outcome.data

\* a 201 with a body did not count as success; the 200 after it did
C7_Witness ==
    \E c \in Calls :
        /\ Len(Settled(c)) = 2
        /\ Settled(c)[1].outcome = Response(201, LogResponse)
        /\ GoodResponse(Settled(c)[2].outcome)
        /\ calls[c].result = LogResponse

\* C8: after every retryable failure on attempt n < retryAttempts (5xx,
\* network error, timeout, or a malformed response) the loop starts a wait of
\* retryDelay * n before it issues attempt n+1.
C8_WaitAfterEveryRetryableFailure ==
    \A c \in Calls :
        \A i \in 1..Len(Trace(c)) :
            ( /\ IsOutcome(Trace(c)[i])
              /\ Retryable(Trace(c)[i].outcome)
              /\ Trace(c)[i].attempt < config.retryAttempts )
            => \E j \in (i + 1)..Len(Trace(c)) :
                  /\ IsDelay(Trace(c)[j])
                  /\ Trace(c)[j].after = Trace(c)[i].attempt
                  /\ Trace(c)[j].ms = config.retryDelay * Trace(c)[i].attempt
                  /\ \A k \in i..j : ~IsPost(Trace(c)[k])

\* C9: no backoff wait follows the final attempt or an attempt refused with
\* 401/403: every wait comes after an attempt below retryAttempts whose
\* outcome was not an authentication refusal, and every wait that is over was
\* followed by a further request.
C9_NoWaitAfterLastAttempt ==
    \A c \in Calls :
        /\ calls[c].pc = "waiting" => calls[c].attempt < config.retryAttempts
        /\ \A i \in 1..Len(Trace(c)) :
              IsDelay(Trace(c)[i])
              => /\ Trace(c)[i].after < config.retryAttempts
                 /\ \A j \in 1..i :
                       (IsOutcome(Trace(c)[j]) /\ Trace(c)[j].attempt = Trace(c)[i].after)
                       => ~AuthRefusal(Trace(c)[j].outcome)
                 /\ \/ calls[c].pc = "waiting" /\ i = Len(Trace(c))
                    \/ \E j \in (i + 1)..Len(Trace(c)) : IsPost(Trace(c)[j])

\* every attempt answered 500: the call resolved with null right after the
\* last of them, having waited only between attempts
C9_Witness ==
    \E c \in Calls :
        /\ Resolved(c)
        /\ calls[c].result = Null
        /\ config.retryAttempts >= 2
        /\ Len(Settled(c)) = config.retryAttempts
        /\ \A i \in 1..Len(Settled(c)) : Settled(c)[i].outcome = Response(500, EmptyData)
        /\ Len(Delays(c)) = config.retryAttempts - 1

\* C10: when a call that made at least one attempt ends without success and
\* console echo is on, the last two console writes are the failure diagnostic
\* with the message of the last attempt's error and the record that was not
\* shipped; also when the failed attempts raised no error.
C10_DiagnosticNamesLastError ==
    \A c \in Calls :
        ( /\ Resolved(c)
          /\ calls[c].result = Null
          /\ config.enableConsoleLog
          /\ Len(Settled(c)) >= 1 )
        => LET W == Writes(c)
               n == Len(W)
               last == Settled(c)[Len(Settled(c))].outcome
           IN  /\ n >= 2
               /\ W[n - 1].what = "all retries failed"
               /\ W[n - 1].message # Undefined
               /\ ~Malformed(last) => W[n - 1].message = AxiosErrorOf(last).message
               /\ W[n].what = "original log entry"
               /\ W[n].logEntry = calls[c].logEntry

IsEcho(e) == e.ev = "console" /\ e.what = "echo"
Echoes(c) == SelectSeq(Trace(c), IsEcho)

\* C11: with console echo disabled a log call writes nothing to the console,
\* whatever its outcome: no echo, no attempt warning, no authentication
\* message, no exhaustion diagnostic.
C11_SilentWhenEchoDisabled ==
    \A c \in Calls :
        ~config.enableConsoleLog => Len(Writes(c)) = 0

\* echo off: a call failed, was retried and was then refused with 401 or 403
C11_Witness ==
    \E c \in Calls :
        /\ ~config.enableConsoleLog
        /\ Resolved(c)
        /\ calls[c].result = Null
        /\ Len(Settled(c)) >= 2
        /\ AuthRefusal(Settled(c)[Len(Settled(c))].outcome)

\* C12: with console echo enabled a call that has started wrote exactly one
\* echo line, and wrote it before its first request.
C12_OneEchoBeforeFirstRequest ==
    \A c \in Calls :
        (config.enableConsoleLog /\ calls[c].pc # "idle")
        => /\ Len(Echoes(c)) = 1
           /\ IsEcho(Trace(c)[1])
           /\ Trace(c)[1].line = << ToUpperCase(calls[c].logEntry.stack),
                                    ToUpperCase(calls[c].logEntry.level),
                                    calls[c].logEntry.package,
                                    calls[c].logEntry.message >>

\* echo on, and the call went on to fail on every attempt
C12_Witness ==
    \E c \in Calls :
        /\ config.enableConsoleLog
        /\ Resolved(c)
        /\ calls[c].result = Null
        /\ Len(Posts(c)) >= 2
        /\ Len(Echoes(c)) = 1

\* C13: the echo line goes to the channel of its level: debug to debug, info
\* to info, warn to warn, error and fatal to error, and to no other channel.
C13_EchoChannelByLevel ==
    \A c \in Calls :
        \A i \in 1..Len(Trace(c)) :
            IsEcho(Trace(c)[i])
            => LET level == calls[c].logEntry.level
                   channel == Trace(c)[i].channel
               IN  /\ level = "debug" => channel = "debug"
                   /\ level = "info" => channel = "info"
                   /\ level = "warn" => channel = "warn"
                   /\ level \in {"error", "fatal"} => channel = "error"
                   /\ channel \in {"debug", "info", "warn", "error"}

\* a fatal record was echoed on the error channel
C13_Witness ==
    \E c \in Calls :
        /\ calls[c].pc # "idle"
        /\ calls[c].logEntry.level = "fatal"
        /\ Len(Echoes(c)) = 1
        /\ Echoes(c)[1].channel = "error"

\* C14: a severity method m(package, message) does what
\* log(defaultStack, m, package, message) does, and the record of the call it
\* starts has stack = defaultStack, level = m and the given package and
\* message; a call whose record has another stack was started by log.
C14_SeverityDelegatesToLog ==
    [][ \A c \in Calls :
          /\ \A l \in Levels, p \in Packages, m \in Messages :
                Severity(c, l, p, m)
                => /\ Log(c, config.defaultStack, l, p, m)
                   /\ calls'[c].logEntry = [ stack |-> config.defaultStack, level |-> l,
                                             package |-> p, message |-> m ]
          /\ ( /\ calls[c].pc = "idle"
               /\ calls'[c].pc # "idle"
               /\ calls'[c].logEntry.stack # config.defaultStack )
             => /\ \E s \in Stacks, l \in Levels, p \in Packages, m \in Messages :
                      Log(c, s, l, p, m)
                /\ ~ \E l \in Levels, p \in Packages, m \in Messages :
                        Severity(c, l, p, m) ]_vars

\* a shipper of the backend stack has a warn record in flight
C14_Witness ==
    \E c \in Calls :
        /\ config.defaultStack = "backend"
        /\ calls[c].pc = "posting"
        /\ calls[c].logEntry.stack = "backend"
        /\ calls[c].logEntry.level = "warn"

\* C15: every request of a call carries as its body the record built from the
\* call's four arguments, unchanged, and the same record on every retry.
C15_BodyIsTheRecord ==
    /\ [] ( \A c \in Calls :
              \A i \in 1..Len(Posts(c)) :
                  /\ Posts(c)[i].body = calls[c].logEntry
                  /\ Posts(c)[i].path = "/logs" )
    /\ [][ \A c \in Calls :
             /\ \A s \in Stacks, l \in Levels, p \in Packages, m \in Messages :
                   Log(c, s, l, p, m)
                   => calls'[c].logEntry = [ stack |-> s, level |-> l,
                                             package |-> p, message |-> m ]
             /\ calls[c].pc \in {"posting", "waiting"}
                => calls'[c].logEntry = calls[c].logEntry ]_vars

\* the third request of a call carried the record of the call
C15_Witness ==
    \E c \in Calls :
        /\ Len(Posts(c)) = 3
        /\ Posts(c)[3].body = calls[c].logEntry
        /\ Posts(c)[1].body = Posts(c)[3].body
        /\ calls[c].logEntry.level = "fatal"

IsElapsed(e) == e.ev = "elapsed"

\* C18: the attempts of one call are strictly sequential: at most one request
\* of the call is outstanding, attempt n+1 is issued only after the outcome of
\* attempt n, and only after every backoff wait started before it is over.
C18_AttemptsSequential ==
    \A c \in Calls :
        LET T == Trace(c) IN
        /\ Len(Posts(c)) - Len(Settled(c)) = IF calls[c].pc = "posting" THEN 1 ELSE 0
        /\ calls[c].pc = "waiting" => IsDelay(T[Len(T)])
        /\ \A i \in 1..Len(T) :
              (IsPost(T[i]) /\ T[i].attempt > 1)
              => /\ \E j \in 1..(i - 1) :
                       IsOutcome(T[j]) /\ T[j].attempt = T[i].attempt - 1
                 /\ \A k \in 1..(i - 1) :
                       IsDelay(T[k])
                       => \E m \in (k + 1)..(i - 1) :
                             IsElapsed(T[m]) /\ T[m].after = T[k].after

\* the third attempt of a call is outstanding, after two waits
C18_Witness ==
    \E c \in Calls :
        /\ calls[c].pc = "posting"
        /\ Len(Posts(c)) = 3
        /\ Len(Settled(c)) = 2
        /\ Len(Delays(c)) = 2

\* C16: after updateAccessToken(t) the stored token is t, and it changes in no
\* other step; every request issued in a step, a retry of a call already in
\* flight included, carries "Bearer" with the token stored at that moment, and
\* the requests issued before keep the header they were sent with.
C16_TokenReadPerAttempt ==
    [][ /\ \A t \in Tokens : UpdateAccessToken(t) => config'.accessToken = t
        /\ config'.accessToken # config.accessToken => \E t \in Tokens : UpdateAccessToken(t)
        /\ \A c \in Calls :
              LET old == Posts(c)
                  new == SelectSeq(calls'[c].trace, IsPost)
              IN /\ calls'[c].pc # "idle"
                    => /\ Len(new) >= Len(old)
                       /\ \A i \in 1..Len(old) : new[i] = old[i]
                 /\ \A i \in (Len(old) + 1)..Len(new) :
                       new[i].authorization = Bearer(config'.accessToken) ]_vars

\* a call whose first request went out with tok0 and whose retry, after the
\* token was replaced, with tok1
C16_Witness ==
    \E c \in Calls :
        /\ calls[c].pc = "posting"
        /\ Len(Posts(c)) = 2
        /\ Posts(c)[1].authorization = Bearer("tok0")
        /\ Posts(c)[2].authorization = Bearer("tok1")
        /\ config.accessToken = "tok1"

\* the configuration createFrontendLogger builds, whatever the token is now
ConfigIntact ==
    /\ config.accessToken \in Tokens
    /\ [config EXCEPT !.accessToken = "tok0"] = MergeDefaults(FrontendLoggerConfig(Url, "tok0"))
    /\ apiClient.headers.Authorization = Bearer(config.accessToken)

\* C17: writing into any field of the object getConfig() returned changes
\* neither the stored configuration, nor the client, nor any call; the stored
\* configuration stays the one that was built (but for the token, which only
\* updateAccessToken replaces), every call behaves by it, and getConfig()
\* returns it.
C17_GetConfigReturnsCopy ==
    /\ [] ( /\ ConfigIntact
            /\ \A c \in Calls :
                  /\ Len(Posts(c)) <= FrontendRetryAttempts
                  /\ \A i \in 1..Len(Posts(c)) :
                        /\ Posts(c)[i].authorization \in {Bearer(t) : t \in Tokens}
                        /\ Posts(c)[i].body.stack = "frontend"
                  /\ \A i \in 1..Len(Delays(c)) :
                        Delays(c)[i].ms = FrontendRetryDelay * Delays(c)[i].after
                  /\ calls[c].pc # "idle" => Len(Echoes(c)) = 1 )
    /\ [][ /\ \A f \in ConfigFields :
                MutateReturned(f)
                => /\ config' = config
                   /\ apiClient' = apiClient
                   /\ calls' = calls
           /\ GetConfig => held'.value = config /\ config' = config ]_vars

\* the caller has overwritten every field of the object it holds, and a call
\* is at its third attempt
C17_Witness ==
    /\ held.ref = "copy"
    /\ \A f \in ConfigFields : held.value[f] # config[f]
    /\ held.value.retryAttempts = 0
    /\ \E c \in Calls : calls[c].pc = "posting" /\ Len(Posts(c)) = 3

OutcomesOf(c) == [i \in 1..Len(Settled(c)) |-> Settled(c)[i].outcome]

\* C19: a step of one call changes the record of no other call, under every
\* interleaving; and where a call stands, its attempts, its waits and its
\* result are determined by the outcomes of its own requests: two calls with
\* the same outcomes at the same point agree on all of them.
C19_CallsIndependent ==
    /\ [] ( \A c, d \in Calls :
              (calls[c].pc = calls[d].pc /\ OutcomesOf(c) = OutcomesOf(d))
              => /\ calls[c].attempt = calls[d].attempt
                 /\ Len(Posts(c)) = Len(Posts(d))
                 /\ Delays(c) = Delays(d)
                 /\ calls[c].result = calls[d].result )
    /\ [][ \A c, d \in Calls :
              (c # d /\ calls'[c] # calls[c]) => calls'[d] = calls[d] ]_vars

\* one call was refused with 401 at its second attempt while another is at its
\* third attempt, after both waits
C19_Witness ==
    \E c, d \in Calls :
        /\ c # d
        /\ Resolved(c) /\ calls[c].result = Null
        /\ Len(Settled(c)) = 2 /\ Settled(c)[2].outcome = Response(401, EmptyData)
        /\ calls[d].pc = "posting" /\ calls[d].attempt = 3
        /\ Len(Delays(d)) = 2

\* C20: a call that is in flight (a request outstanding, or a backoff wait
\* running) is eventually resolved, when every request ends and every wait
\* elapses.
C20_EveryCallResolves ==
    \A c \in Calls : (calls[c].pc \in {"posting", "waiting"}) ~> Resolved(c)

\* a call resolved with null after every attempt timed out and every wait between
C20_Witness ==
    \E c \in Calls :
        /\ Resolved(c) /\ calls[c].result = Null
        /\ config.retryAttempts = MaxAttempts
        /\ Len(Settled(c)) = MaxAttempts
        /\ \A i \in 1..Len(Settled(c)) : Settled(c)[i].outcome = Timeout
        /\ Len(Delays(c)) = MaxAttempts - 1

ServerError == Response(500, EmptyData)

\* every request of call c was answered, with a 500, and the call is over
AlwaysFailed(c) ==
    /\ Resolved(c)
    /\ Len(Settled(c)) > 0
    /\ \A i \in 1..Len(Settled(c)) : Settled(c)[i].outcome = ServerError

DelaySchedule(c) == [i \in 1..Len(Delays(c)) |-> Delays(c)[i].ms]

\* C21: the frontend shipper has stack frontend, echo on, 3 attempts, delay
\* 1000; the backend shipper stack backend, echo off, 5 attempts, delay 2000.
\* Against a collector that always answers 500 the backend shipper issues 5
\* requests, waits 2000, 4000, 6000, 8000 and writes nothing to the console;
\* the frontend shipper issues 3 requests and waits 1000, 2000.
C21_FactoryProfiles ==
    /\ config.defaultStack = "frontend"
       => /\ config.enableConsoleLog
          /\ config.retryAttempts = 3
          /\ config.retryDelay = 1000
    /\ config.defaultStack = "backend"
       => /\ ~config.enableConsoleLog
          /\ config.retryAttempts = 5
          /\ config.retryDelay = 2000
    /\ \A c \in Calls :
          AlwaysFailed(c)
          => IF config.defaultStack = "backend"
             THEN /\ Len(Posts(c)) = 5
                  /\ DelaySchedule(c) = <<2000, 4000, 6000, 8000>>
                  /\ Writes(c) = <<>>
                  /\ calls[c].result = Null
             ELSE /\ Len(Posts(c)) = 3
                  /\ DelaySchedule(c) = <<1000, 2000>>
                  /\ calls[c].result = Null

\* a call of the backend shipper is over after five requests answered with 500
C21_Witness ==
    \E c \in Calls :
        /\ config.defaultStack = "backend"
        /\ AlwaysFailed(c)
        /\ Len(Settled(c)) = 5

\* C22: a shipper built from apiUrl, accessToken and defaultStack alone has
\* enableConsoleLog = true, retryAttempts = 3 and retryDelay = 1000; each of
\* the three that the caller's object names takes the caller's value; apiUrl,
\* accessToken and defaultStack are stored as passed.  The stored
\* configuration is such a merge, and the client is built from it.
C22_ConstructorDefaults ==
    /\ \A c \in CallerConfigs :
          LET m == MergeDefaults(c) IN
          /\ m.apiUrl = c.apiUrl
          /\ m.accessToken = c.accessToken
          /\ m.defaultStack = c.defaultStack
          /\ m.enableConsoleLog = (IF "enableConsoleLog" \in c.given THEN c.enableConsoleLog ELSE TRUE)
          /\ m.retryAttempts = (IF "retryAttempts" \in c.given THEN c.retryAttempts ELSE 3)
          /\ m.retryDelay = (IF "retryDelay" \in c.given THEN c.retryDelay ELSE 1000)
    /\ \E c \in CallerConfigs : config = MergeDefaults(c)
    /\ apiClient.baseURL = config.apiUrl
    /\ \A c \in Calls :
          /\ Len(Posts(c)) <= config.retryAttempts
          /\ (calls[c].pc # "idle" /\ config.enableConsoleLog) => Len(Echoes(c)) = 1
          /\ \A i \in 1..Len(Delays(c)) : Delays(c)[i].ms = config.retryDelay * Delays(c)[i].after

\* a shipper whose caller turned the echo off and asked for one attempt, after
\* a call that made its one request, failed and wrote nothing
C22_Witness ==
    /\ config.retryAttempts = 1
    /\ ~config.enableConsoleLog
    /\ config.retryDelay = DefaultRetryDelay
    /\ \E c \in Calls :
          /\ Resolved(c)
          /\ Len(Posts(c)) = 1
          /\ Len(Settled(c)) = 1 /\ Settled(c)[1].outcome = ServerError
          /\ Writes(c) = <<>>

\* C23: the wait before each retry is double the wait before the previous one
\* (retryDelay, 2 * retryDelay, 4 * retryDelay, ...).  The code waits
\* retryDelay * attempt: the third wait is 3 * retryDelay.
C23_WaitsDouble ==
    \A c \in Calls :
        /\ Len(Delays(c)) > 0 => Delays(c)[1].ms = config.retryDelay
        /\ \A i \in 2..Len(Delays(c)) : Delays(c)[i].ms = 2 * Delays(c)[i - 1].ms

\* C30: the Authorization header of the client is "Bearer" and the stored
\* token, in every state; updateAccessToken(t) stores t and changes no other
\* field of the configuration and nothing else of the client, and getConfig()
\* returns the stored configuration.
C30_HeaderFollowsToken ==
    /\ [] ( apiClient.headers.Authorization = Bearer(config.accessToken) )
    /\ [][ /\ \A t \in Tokens :
                UpdateAccessToken(t)
                => /\ config' = [config EXCEPT !.accessToken = t]
                   /\ apiClient' = [apiClient EXCEPT !.headers.Authorization = Bearer(t)]
                   /\ calls' = calls
           /\ GetConfig => /\ held'.ref = "copy"
                           /\ held'.value = config ]_vars

\* the token was replaced after getConfig(): the copy the caller holds differs
\* from the stored configuration in accessToken alone
C30_Witness ==
    /\ held.ref = "copy"
    /\ config.accessToken = "tok1"
    /\ held.value.accessToken = "tok0"
    /\ [held.value EXCEPT !.accessToken = "tok1"] = config
    /\ apiClient.headers.Authorization = Bearer("tok1")

\* C26: the page has between 1 and 5 forms in every state, after any sequence
\* of addUrlForm, removeUrlForm, resetForm and resetAllForms, several of them
\* called before the page renders again included.  addUrlForm and
\* removeUrlForm test the length the last render saw and then change the
\* state as it is.
C26_FormCountInRange ==
    /\ Len(urlForms) >= 1
    /\ Len(urlForms) <= 5

Distinct(codes) == \A i, j \in 1..Len(codes) : codes[i] = codes[j] => i = j
CodesOf(shortUrls) == [i \in 1..Len(shortUrls) |-> shortUrls[i].shortCode]

\* C24: no two short URLs of the stored list (the state of App and the item
\* in localStorage) have the same shortCode, after any sequence of
\* submissions, batches of several forms with the same custom shortcode or
\* with generated shortcodes included.
C24_ShortCodesUnique ==
    /\ Distinct(CodesOf(storedValue))
    /\ Distinct(CodesOf(localStorage))
    /\ Distinct(CodesOf(rendered.shortUrls))

\* two forms of one batch were given the same custom shortcode, both show a
\* result with it, and the list holds a short URL with that code and another
C24_Witness ==
    /\ Len(urlForms) >= 2
    /\ urlForms[1].result # <<>> /\ urlForms[2].result # <<>>
    /\ urlForms[1].result[1].shortCode = "Admin"
    /\ urlForms[2].result[1].shortCode = "Admin"
    /\ Len(storedValue) = 2
    /\ "Admin" \in UsedCodes(storedValue)

\* C25: after a batch, every short URL the batch created (every form whose
\* result the batch set) is in the shortUrls state of App and in the item of
\* localStorage.  Each onShortUrlCreated of the batch prepends to the list of
\* the same render, and the last one overwrites the others.
C25_BatchKeepsEveryUrl ==
    [][ HandleSubmitAll
        => \A j \in 1..Len(urlForms') :
              (urlForms'[j].result # <<>> /\ urlForms'[j].result[1].id \notin ResultIds(urlForms))
              => /\ urlForms'[j].result[1].id \in UrlIds(storedValue')
                 /\ urlForms'[j].result[1].id \in UrlIds(localStorage') ]_vars

IsReserved(shortCode) == ToLowerCase2(shortCode) \in ReservedWords

\* C27: no short URL of the stored list has a reserved word as its shortCode,
\* compared without regard to case.  validateForm, which decides the
\* submission, does not look at the reserved words; only validateShortcode
\* does, and it only labels the field.
C27_NoReservedShortCode ==
    /\ \A i \in 1..Len(storedValue) : ~IsReserved(storedValue[i].shortCode)
    /\ \A i \in 1..Len(localStorage) : ~IsReserved(localStorage[i].shortCode)

Refused ==
    /\ IsShortUrlPath(location)
    /\ \/ Find(localStorage, ShortCodeOf(location)) = <<>>
       \/ clock > Find(localStorage, ShortCodeOf(location))[1].expiresAt.iso

\* C29: a visit to an unknown shortcode or to an expired short URL records no
\* click and never redirects: the list and the stored item stay as they were,
\* no timer is started, and once the effect has run the handler shows an
\* error and no longer redirects; the browser leaves only for the original
\* URL of a stored, unexpired short URL that got a click.
C29_RefusedVisitChangesNothing ==
    /\ Refused
       => /\ localStorage \in PersistedLists
          /\ storedValue = Parse(localStorage)
          /\ handler.timers = <<>>
          /\ handler.mounted
          /\ handler.runs > 0
             => (handler.error # "" /\ ~handler.isRedirecting /\ ~handler.due)
    /\ ~IsShortUrlPath(location)
       => \E i \in 1..Len(localStorage) :
             /\ localStorage[i].originalUrl = location
             /\ localStorage[i].clickCount > 0
             /\ clock <= localStorage[i].expiresAt.iso

\* the effect has run for a short URL that was found and has expired
C29_Witness ==
    /\ Refused
    /\ handler.runs > 0
    /\ handler.foundUrl # <<>>
    /\ handler.error = "This short URL has expired"

\* C31: with retryAttempts 0 or negative a log call issues no request and
\* waits for nothing: it goes from its console echo straight to the lines
\* after the loop and resolves with null, the value a call also resolves with
\* when every one of its attempts has failed.
C31_NoAttemptsResolvesNull ==
    \A c \in Calls :
        /\ config.retryAttempts <= 0
           => /\ calls[c].pc \in {"idle", "resolved"}
              /\ Posts(c) = <<>>
              /\ Settled(c) = <<>>
              /\ Delays(c) = <<>>
              /\ calls[c].result = Null
        /\ ( /\ Resolved(c)
             /\ config.retryAttempts >= 1
             /\ Len(Settled(c)) = config.retryAttempts
             /\ \A i \in 1..Len(Settled(c)) : ~GoodResponse(Settled(c)[i].outcome) )
           => calls[c].result = Null

\* a call made with retryAttempts -1 has resolved
C31_Witness ==
    \E c \in Calls :
        /\ Resolved(c)
        /\ config.retryAttempts < 0
        /\ calls[c].logEntry \in LogEntries
        /\ Posts(c) = <<>>
        /\ calls[c].result = Null

\* C32: once a log call has resolved, nothing more is done for its record: no
\* request, no wait and no console write follows, and all that happens to
\* the call is that its caller takes the value.  The shipper keeps no record
\* between calls: a call site that is idle holds nothing, every request of a
\* call carries the record of that call, and no call changes the shipper.
C32_NothingAfterResolution ==
    /\ [] ( \A c \in Calls :
               /\ calls[c].pc = "idle" => calls[c] = IdleCall
               /\ \A i \in 1..Len(Posts(c)) : Posts(c)[i].body = calls[c].logEntry )
    /\ [][ /\ \A c \in Calls :
                Resolved(c) => (calls'[c] = calls[c] \/ calls'[c] = IdleCall)
           /\ UNCHANGED <<config, apiClient>> ]_vars

\* a fatal record was refused on every attempt and its call has resolved
C32_Witness ==
    \E c \in Calls :
        /\ Resolved(c)
        /\ calls[c].logEntry.level = "fatal"
        /\ calls[c].result = Null
        /\ Len(Posts(c)) = 2
        /\ config.retryAttempts = 2

\* C33: the logger of the application is created once.  createFrontendLogger
\* is invoked at most once, every call of initializeLogger and of getLogger
\* returns the logger the module holds, and once the module holds a logger,
\* the LoggingMiddleware or (when the construction threw) the fallback
\* logger, it holds that one for good and constructs nothing more.
C33_LoggerCreatedOnce ==
    /\ [] ( /\ utils.constructions <= 1
            /\ \A i \in 1..Len(utils.returned) : utils.returned[i] = utils.logger
            /\ utils.returned # <<>> => utils.logger # NullLogger
            /\ utils.logger # NullLogger => utils.constructions = 1 )
    /\ [][ utils.logger # NullLogger
           => /\ utils'.logger = utils.logger
              /\ utils'.constructions = utils.constructions ]_vars

\* the construction threw, and the calls after it got the fallback logger
C33_Witness ==
    /\ utils.logger = FallbackLogger
    /\ utils.constructions = 1
    /\ Len(utils.returned) >= 3

\* the record a wrapper means to ship
WrapperRecord(w) ==
    [ stack |-> "frontend", level |-> WrapperLevel(w),
      package |-> WrapperTag(w), message |-> WrapperText(w) ]

\* C34: the record shipped for the call of a convenience wrapper has the
\* category tag of the wrapper as its package and the descriptive text as
\* its message.  Eight of the twelve wrappers pass (message, tag) to a method
\* whose parameters are (packageName, message).
C34_WrapperShipsTagAsPackage ==
    \A c \in Calls :
        \A i \in 1..Len(Posts(c)) :
            \E w \in Wrappers : Posts(c)[i].body = WrapperRecord(w)

\* the list as it is written to the item: dates as their ISO strings
Counted(shortUrls) ==
    \A i \in 1..Len(shortUrls) : shortUrls[i].clickCount = Len(shortUrls[i].clicks)

\* `after` is `before` with one click recorded
IsClickOf(before, after) ==
    /\ after = [before EXCEPT !.clickCount = @ + 1, !.clicks = after.clicks]
    /\ Len(after.clicks) = Len(before.clicks) + 1
    /\ SubSeq(after.clicks, 1, Len(before.clicks)) = before.clicks

\* C35: every short URL of the list has as many entries in clicks as its
\* clickCount says, in the state, in the item and in what the last render
\* saw.  A step leaves a short URL as it was, or records one click on it
\* (clickCount + 1, one entry appended, nothing else of it changed), or adds
\* it with clickCount 0 and no clicks; a step that records a click changes no
\* other short URL, and adds and removes none.
C35_ClickCountIsNumberOfClicks ==
    /\ [] ( Counted(storedValue) /\ Counted(localStorage) /\ Counted(rendered.shortUrls) )
    /\ [][ LET old == Stringify(storedValue)
               new == Stringify(storedValue')
               clicked == { j \in 1..Len(new) :
                              \E i \in 1..Len(old) : IsClickOf(old[i], new[j]) }
           IN /\ \A j \in 1..Len(new) :
                    \/ \E i \in 1..Len(old) : old[i] = new[j]
                    \/ j \in clicked
                    \/ /\ new[j].id \notin UrlIds(old)
                       /\ new[j].clickCount = 0
                       /\ new[j].clicks = <<>>
              /\ Cardinality(clicked) <= 1
              /\ clicked # {}
                 => /\ Len(new) = Len(old)
                    /\ \A j \in 1..Len(new) : j \notin clicked => new[j] = old[j] ]_vars

\* two short URLs were created on the page, and a visit recorded a click on
\* one of them
C35_Witness ==
    /\ Len(storedValue) = 2
    /\ \E i, j \in 1..2 :
          /\ storedValue[i].clickCount = 1
          /\ Len(storedValue[i].clicks) = 1
          /\ storedValue[j].clickCount = 0
    /\ localStorage = Stringify(storedValue)

\* C36: generateShortCode never returns a code that is among usedCodes, and
\* the code it returns has at least the length that was asked for.  It draws
\* at most 100 codes of one length; with the hundredth draw it goes on with
\* length + 1, and returns nothing of the length it leaves.
C36_GeneratedCodeIsUnused ==
    /\ [] ( /\ generating.pc = "returned"
               => /\ generating.result \notin generating.usedCodes
                  /\ Len(generating.result) >= generating.asked
                  /\ Len(generating.result) = generating.length
            /\ generating.pc = "loop"
               => /\ generating.attempts < GenerateMaxAttempts
                  /\ generating.length >= generating.asked )
    /\ [][ ( generating.pc = "loop" /\ generating.attempts = GenerateMaxAttempts - 1 )
           => /\ generating'.pc = "loop"
              /\ generating'.length = generating.length + 1
              /\ generating'.attempts = 0 ]_vars

\* every code of the length asked for was in use: the code returned is longer
C36_Witness ==
    /\ generating.pc = "returned"
    /\ generating.asked = 1
    /\ CodesOfLength(1) \subseteq generating.usedCodes
    /\ Len(generating.result) = 2

\* C37: after a write through the setter of useLocalStorage the state and the
\* item agree, the item being the JSON of the state; a write whose setItem
\* throws leaves no value in the state that is not in the item.  The setter
\* sets the state before it calls setItem, and its catch block only logs.
C37_StateAgreesWithItem ==
    Stringify(storedValue) = localStorage

\* ------------------------------------------------ the submission, step by step
\* handleSubmitAll() as the event loop runs it.  The call itself runs to its
\* await of Promise.all: it sets the flag of the page, and the function mapped
\* over validForms marks each form as processing and calls processUrlForm,
\* which has no await of its own and so has validated the form and built the
\* ShortUrl when it returns its promise.  Each continuation is a microtask of
\* its own, in the order of the forms; the finally block runs when all of them
\* are over.  React may render in between.
ProcessedUrls == {"example.com", "a b"}

\* the forms handleSubmitAll submits: validForms
ValidForms(forms) ==
    SelectSeq(forms, LAMBDA form : /\ Trim(form.originalUrl) # ""
                                   /\ ~form.isProcessing
                                   /\ form.result = <<>>)

\* updateUrlForm(form.id, { isProcessing: true, error: undefined }) of each
RECURSIVE MarkProcessing(_, _)
MarkProcessing(forms, validForms) ==
    IF validForms = <<>> THEN forms
    ELSE MarkProcessing(MapForms(forms, Head(validForms).id,
                                 [isProcessing |-> TRUE, error |-> <<>>]),
                        Tail(validForms))

\* faulty variant: the catch block records the error and leaves the form
\* marked as processing
SettledUpdatesErrorOnly(promise) ==
    IF promise.errors = <<>>
    THEN [isProcessing |-> FALSE, result |-> promise.created, error |-> <<>>]
    ELSE [error |-> promise.errors]

\* the updates the continuation hands to updateUrlForm: those after the await
\* when processUrlForm resolved, those of the catch block when it threw
SettledUpdates(promise) ==
    IF promise.errors = <<>>
    THEN [isProcessing |-> FALSE, result |-> promise.created, error |-> <<>>]
    ELSE [isProcessing |-> FALSE, error |-> promise.errors]

\* handleSubmitAll() up to `await Promise.all(promises)`; with no valid form
\* it sets the flag, notifies, clears the flag and returns
Submit ==
    LET validForms == ValidForms(rendered.urlForms)
        n == Len(validForms)
        ids == FreshIds(UrlIds(storedValue) \cup UrlIds(rendered.shortUrls)
                          \cup ResultIds(urlForms) \cup ResultIds(rendered.urlForms), n)
    IN /\ ~isProcessing
       /\ promises = <<>>
       /\ rendered.stale < MaxStale
       /\ Len(rendered.shortUrls) < MaxStored
       /\ rendered' = [rendered EXCEPT !.stale = @ + 1]
       /\ IF n = 0
          THEN UNCHANGED <<urlForms, isProcessing, promises>>
          ELSE \E gen \in [1..n -> GeneratedCodes(UsedCodes(rendered.shortUrls))] :
                 /\ isProcessing' = TRUE
                 /\ urlForms' = MarkProcessing(urlForms, validForms)
                 /\ promises' =
                      [ i \in 1..n |->
                          LET form == validForms[i]
                              errors == ValidateForm(form, rendered.shortUrls)
                              shortCode == IF Trim(form.customShortcode) # ""
                                           THEN Trim(form.customShortcode) ELSE gen[i]
                          IN [ formId |-> form.id, errors |-> errors,
                               created |-> Created(errors, MakeShortUrl(form, ids[i], shortCode)),
                               shortUrls |-> rendered.shortUrls,
                               settled |-> FALSE ] ]
       /\ UNCHANGED <<storedValue, localStorage, handler, location, clock, utils, generating,
                      loggerVars>>

\* the promises whose continuation has not run
Awaited == { i \in 1..Len(promises) : ~promises[i].settled }

\* the continuation of the first such promise: updateUrlForm with the result
\* and onShortUrlCreated(shortUrl), or the catch block.  addShortUrl is the one
\* of the render the run began in.
Continue ==
    /\ Awaited # {}
    /\ LET i == CHOOSE k \in Awaited : \A l \in Awaited : k <= l
           promise == promises[i]
           stored == IF promise.created = <<>> THEN storedValue
                     ELSE ValueToStore(promise.created[1], promise.shortUrls, storedValue)
       IN /\ urlForms' = MapForms(urlForms, promise.formId, SettledUpdates(promise))
          /\ storedValue' = stored
          /\ localStorage' = IF promise.created = <<>> THEN localStorage ELSE Stringify(stored)
          /\ promises' = [promises EXCEPT ![i].settled = TRUE]
    /\ rendered' = [rendered EXCEPT !.stale = IF @ < MaxStale THEN @ + 1 ELSE @]
    /\ UNCHANGED <<isProcessing, handler, location, clock, utils, generating, loggerVars>>

\* Promise.all has resolved, for no continuation throws: the notifications,
\* and the finally block with setIsProcessing(false)
Finally ==
    /\ isProcessing
    /\ Awaited = {}
    /\ isProcessing' = FALSE
    /\ promises' = <<>>
    /\ rendered' = [rendered EXCEPT !.stale = IF @ < MaxStale THEN @ + 1 ELSE @]
    /\ UNCHANGED <<urlForms, storedValue, localStorage, handler, location, clock, utils,
                   generating, loggerVars>>

\* no event of the user is handled while the microtasks of a run are due
Idle == ~isProcessing /\ promises = <<>>

\* The user adds up to MaxBatch forms, types a URL into an empty one, and
\* submits; a form that failed is submitted again with the next run.
NextProcessing ==
    \/ Idle /\ Fresh /\ Len(urlForms) < MaxBatch /\ AddUrlForm
    \/ \E id \in FormIds(rendered.urlForms), url \in ProcessedUrls :
          Idle /\ Fresh /\ Shown(id).originalUrl = "" /\ HandleUrlChange(id, url)
    \/ Fresh /\ Submit
    \/ Continue
    \/ Finally
    \/ Render

\* A microtask that is due runs: the continuations and the finally block are
\* queued by the promises, which are settled when handleSubmitAll awaits them.
SpecProcessing ==
    /\ InitFrontend
    /\ [][NextProcessing]_vars
    /\ WF_vars(Continue)
    /\ WF_vars(Finally)

\* the form with this id
FormOf(forms, id) == CHOOSE form \in { forms[i] : i \in 1..Len(forms) } : form.id = id

\* C38: every run of handleSubmitAll ends with the flag of the page false and
\* no form marked as processing, whatever the validation of its forms gave;
\* when it ends, each form it submitted has a result or an error, never both.
\* A run with no valid form leaves the flag and the forms as they were.
C38_RunEndsProcessing ==
    /\ [] ( Idle => \A i \in 1..Len(urlForms) :
                       /\ ~urlForms[i].isProcessing
                       /\ ~(urlForms[i].result # <<>> /\ urlForms[i].error # <<>>) )
    /\ [][ /\ ( isProcessing /\ ~isProcessing' )
              => \A i \in 1..Len(promises) :
                    LET form == FormOf(urlForms', promises[i].formId)
                    IN /\ ~form.isProcessing
                       /\ (form.result # <<>>) # (form.error # <<>>)
           /\ ( Idle /\ ValidForms(rendered.urlForms) = <<>> )
              => /\ isProcessing' = FALSE
                 /\ promises' = <<>> ]_vars
    /\ isProcessing ~> ( /\ ~isProcessing
                         /\ \A i \in 1..Len(urlForms) : ~urlForms[i].isProcessing )

\* a run is over in which one form succeeded and one failed
C38_Witness ==
    /\ Idle
    /\ \E i, j \in 1..Len(urlForms) :
          /\ urlForms[i].result # <<>> /\ urlForms[i].error = <<>>
          /\ urlForms[j].error # <<>> /\ urlForms[j].result = <<>>

====
